---- MODULE Spec2Model ----
(***************************************************************************)
(* State-machine model of the animation evaluator (AnimData, AnimTrack,    *)
(* AnimSnapshot, AnimCache) and of the AnimComponentLayer facade.          *)
(*                                                                         *)
(* JavaScript objects that are compared or shared by reference (caches,    *)
(* result arrays) live in heaps: a heap is a sequence, an object's         *)
(* identity is its position in it, and `new` appends.  Array indices are   *)
(* 0-based as in the source; element i of a JS array a is a[i + 1] here.   *)
(* Numbers stored in result buffers are exact rationals <<num, den>>.      *)
(***************************************************************************)
EXTENDS Integers, Sequences, FiniteSets, TLC

VARIABLES
    pool,        \* every AnimData object constructed so far
    track,       \* the shared AnimTrack object
    cacheHeap,   \* heap of AnimCache objects
    bufHeap,     \* heap of result arrays (`storage`)
    snapshots,   \* the AnimSnapshot objects constructed so far
    callLog,     \* calls made on AnimCache objects by the last eval
    lastOp,      \* the operation performed by the last step, and how it ended
    layer,       \* the AnimComponentLayer object
    controller,  \* the layer's controller
    component,   \* the layer's owning AnimComponent
    meshes,      \* heap of Mesh objects: reference count, destroyed or not
    lists,       \* heap of the arrays of meshes handed to renders
    renders,     \* the Render objects: the array each one holds, or null
    renderCall,  \* the last operation on a render and the calls it made
    vr,          \* the VrManager object and the state of its enumeration
    vrCall,      \* the last callback of the VrManager that ran
    layoutChild, \* the LayoutChildComponent object
    layoutCall   \* the last assignment to a resize property

vars == <<pool, track, cacheHeap, bufHeap, snapshots, callLog, lastOp,
          layer, controller, component, meshes, lists, renders, renderCall,
          vr, vrCall, layoutChild, layoutCall>>

animVars  == <<track, cacheHeap, bufHeap, snapshots, callLog>>
layerVars == <<layer, controller, component>>
renderVars == <<meshes, lists, renders, renderCall>>
vrVars == <<vr, vrCall>>
layoutVars == <<layoutChild, layoutCall>>

(***************************************************************************)
(* Bounds of the model.                                                    *)
(***************************************************************************)
MaxPool == 2        \* AnimData objects constructed in one behaviour
MaxDataLen == 2     \* length of the data handed to the AnimData constructor
MaxSnapshots == 2   \* snapshots bound to the shared track
MaxTime == 5        \* largest time handed to eval
MaxTransitions == 2 \* transitions the controller holds before the layer acts
MaxRenders == 2     \* Render objects holding meshes
MaxDisplayIds == 3  \* display ids the browser reports
MaxVrDisplays == 4  \* VrDisplay objects constructed in one behaviour
MaxEnumerated == 2  \* displays the initial enumeration resolves with
MaxAssignments == 2 \* assignments to the properties of one LayoutChildComponent
MaxKeys == 4        \* longest buffer of key times a track is built from
MaxDt == 3          \* largest time step handed to update
MaxTransitionTime == 3 \* longest duration of a transition

Min(a, b) == IF a < b THEN a ELSE b
Max(a, b) == IF a > b THEN a ELSE b

\* JS array read a[i]: the element, or "undefined" outside 0..length-1
InRange(a, i) == i >= 0 /\ i < Len(a)

(***************************************************************************)
(* AnimData                                                                *)
(***************************************************************************)
\* new AnimData(components, data): stores both arguments as given
AnimData(components, data) == [_components |-> components, _data |-> data]

ComponentsArgs == -1 .. 2
DataArgs == UNION {[1 .. n -> 0 .. 1] : n \in 0 .. MaxDataLen}

ConstructAnimData(components, data) ==
    /\ Len(pool) < MaxPool
    /\ pool' = Append(pool, AnimData(components, data))
    /\ lastOp' = [op |-> "AnimData", snap |-> 0, time |-> 0, arg |-> "", result |-> "ok"]
    /\ UNCHANGED <<animVars, layerVars, renderVars, vrVars, layoutVars>>

(***************************************************************************)
(* Exact arithmetic for sampled values                                     *)
(***************************************************************************)
Abs(x) == IF x < 0 THEN -x ELSE x

RECURSIVE Gcd(_, _)
Gcd(a, b) == IF b = 0 THEN a ELSE Gcd(b, a % b)

\* the rational n/d (d > 0) in lowest terms
Rat(n, d) == LET g == Gcd(Abs(n), d) IN <<n \div g, d \div g>>

\* what arithmetic on a missing array element yields
NaN == <<0, 0>>

(***************************************************************************)
(* AnimCache: the cursor of one input of one snapshot.  anim-cache.js is    *)
(* not among the sources; the cache is modelled from the design            *)
(* description: it holds the last query time and the bracket index, and    *)
(* keeps the bracket's two key times for the interpolation fraction, which *)
(* is clamped to [0, 1] so that queries outside the keys give the end      *)
(* samples.  CubicSpline is left out: its tangent layout is undefined.     *)
(***************************************************************************)
NewAnimCache == [lastQueryTime |-> -1, bracketIndex |-> 0, t0 |-> 0, t1 |-> 0]

\* forward scan from index i while the next key is not after time
RECURSIVE ForwardScan(_, _, _)
ForwardScan(inputTimes, i, time) ==
    IF i < Len(inputTimes) - 2 /\ inputTimes[i + 2] <= time
    THEN ForwardScan(inputTimes, i + 1, time)
    ELSE i

\* binary search in lo..hi for the last key that is not after time
RECURSIVE BinarySearch(_, _, _, _)
BinarySearch(inputTimes, lo, hi, time) ==
    IF lo >= hi THEN lo
    ELSE LET mid == (lo + hi + 1) \div 2
         IN  IF inputTimes[mid + 1] <= time
             THEN BinarySearch(inputTimes, mid, hi, time)
             ELSE BinarySearch(inputTimes, lo, mid - 1, time)

AnimCache_update(cache, time, inputTimes) ==
    LET n == Len(inputTimes)
        index ==
            IF n < 2 THEN 0
            ELSE IF time <= inputTimes[1] THEN 0
            ELSE IF time >= inputTimes[n] THEN n - 2
            ELSE IF time >= inputTimes[cache.bracketIndex + 1]
                 THEN ForwardScan(inputTimes, cache.bracketIndex, time)
                 ELSE BinarySearch(inputTimes, 0, n - 2, time)
        right == Min(index + 1, n - 1)
    IN  [lastQueryTime |-> time,
         bracketIndex  |-> index,
         t0 |-> IF n = 0 THEN 0 ELSE inputTimes[index + 1],
         t1 |-> IF n = 0 THEN 0 ELSE inputTimes[right + 1]]

\* element i of a flat data array as a number
Sample(data, i) == IF InRange(data, i) THEN Rat(data[i + 1], 1) ELSE NaN

\* lerp(left, right, num/den) for 0 <= num <= den, den > 0
Lerp(left, right, num, den) ==
    IF left = NaN \/ right = NaN THEN NaN
    ELSE Rat(left[1] * den + (right[1] - left[1]) * num, den)

\* the value AnimCache.eval writes for component c of the current bracket
CacheValue(cache, interpolation, output, c) ==
    LET comps == output._components
        left  == Sample(output._data, cache.bracketIndex * comps + c)
        right == Sample(output._data, (cache.bracketIndex + 1) * comps + c)
        den   == cache.t1 - cache.t0
        num   == IF den <= 0 THEN 0
                 ELSE Max(0, Min(den, cache.lastQueryTime - cache.t0))
    IN  IF interpolation = "Step" \/ den <= 0 THEN left
        ELSE Lerp(left, right, num, den)

\* AnimCache.eval(result, interpolation, output): the contents of `result`
\* afterwards; entries 0..components-1 are overwritten
AnimCache_eval(cache, result, interpolation, output) ==
    [j \in 1 .. Max(Len(result), output._components) |->
        IF j <= output._components
        THEN CacheValue(cache, interpolation, output, j - 1)
        ELSE result[j]]

(***************************************************************************)
(* AnimTrack and AnimSnapshot                                              *)
(***************************************************************************)
AnimCurve(input, output, interpolation) ==
    [_input |-> input, _output |-> output, _interpolation |-> interpolation]

\* an AnimEvents object: its events list
AnimEvents(events) == [events |-> events]

\* new AnimTrack(name, duration, inputs, outputs, curves, animEvents)
AnimTrack(name, duration, inputs, outputs, curves, animEvents) ==
    [_name |-> name, _duration |-> duration, _inputs |-> inputs,
     _outputs |-> outputs, _curves |-> curves, _animEvents |-> animEvents]

\* the storage array the constructor fills for an output: one 0 per j with
\* 0 <= j < output._components
ZeroStorage(output) == [j \in 1 .. output._components |-> Rat(0, 1)]

\* pre-allocate storage for evaluation results: the storage arrays of curves
\* i, i+1, ... appended to acc.storage; acc.ok becomes FALSE when a curve's
\* output is undefined (the read of output._components throws a TypeError)
RECURSIVE AllocResults(_, _, _)
AllocResults(animTrack, i, acc) ==
    IF ~acc.ok \/ i >= Len(animTrack._curves) THEN acc
    ELSE LET curve == animTrack._curves[i + 1]
         IN  IF ~InRange(animTrack._outputs, curve._output)
             THEN [acc EXCEPT !.ok = FALSE]
             ELSE AllocResults(animTrack, i + 1,
                    [acc EXCEPT !.storage =
                        Append(@, ZeroStorage(animTrack._outputs[curve._output + 1]))])

\* AnimSnapshot with the storage arrays hoisted out of the object: every
\* snapshot of the track refers to the arrays the first one allocated
AnimSnapshot_sharedStorage(animTrack, ch, bh) ==
    LET nIn   == Len(animTrack._inputs)
        alloc == AllocResults(animTrack, 0, [ok |-> TRUE, storage |-> <<>>])
        first == Len(bh) = 0
    IN  IF ~alloc.ok
        THEN [ok |-> FALSE, snap |-> <<>>, cacheHeap |-> ch, bufHeap |-> bh]
        ELSE [ok |-> TRUE,
              snap |-> [_name    |-> animTrack._name \o "Snapshot",
                        _time    |-> -1,
                        _cache   |-> [i \in 1 .. nIn |-> Len(ch) + i],
                        _results |-> [i \in 1 .. Len(alloc.storage) |-> i]],
              cacheHeap |-> ch \o [i \in 1 .. nIn |-> NewAnimCache],
              bufHeap   |-> IF first THEN alloc.storage ELSE bh]

\* new AnimSnapshot(animTrack) on the heaps ch, bh: whether it returned, the
\* object, and the heaps afterwards
AnimSnapshot(animTrack, ch, bh) ==
    LET nIn   == Len(animTrack._inputs)
        alloc == AllocResults(animTrack, 0, [ok |-> TRUE, storage |-> <<>>])
    IN  IF ~alloc.ok
        THEN [ok |-> FALSE, snap |-> <<>>, cacheHeap |-> ch, bufHeap |-> bh]
        ELSE [ok |-> TRUE,
              snap |-> [_name    |-> animTrack._name \o "Snapshot",
                        _time    |-> -1,
                        _cache   |-> [i \in 1 .. nIn |-> Len(ch) + i],
                        _results |-> [i \in 1 .. Len(alloc.storage) |-> Len(bh) + i]],
              cacheHeap |-> ch \o [i \in 1 .. nIn |-> NewAnimCache],
              bufHeap   |-> bh \o alloc.storage]

\* the evaluation state threaded through AnimTrack.eval's two loops
EvalState(ch, bh, log, err) ==
    [cacheHeap |-> ch, bufHeap |-> bh, log |-> log, err |-> err]

\* evaluate inputs, leaving the caches alone when time moves backwards
RECURSIVE EvalInputs_forwardOnly(_, _, _, _, _)
EvalInputs_forwardOnly(tr, time, snap, i, st) ==
    IF st.err # "none" \/ i >= Len(tr._inputs) THEN st
    ELSE IF ~InRange(snap._cache, i)
         THEN [st EXCEPT !.err = "TypeError"]
         ELSE LET id   == snap._cache[i + 1]
                  data == tr._inputs[i + 1]._data
              IN  EvalInputs_forwardOnly(tr, time, snap, i + 1,
                    [st EXCEPT
                       !.cacheHeap[id] = IF time < snap._time THEN @
                                         ELSE AnimCache_update(@, time, data),
                       !.log = Append(@, [call |-> "update", cache |-> id,
                                          time |-> time, data |-> data])])

\* evaluate inputs: for (i = 0; i < inputs.length; ++i)
\*     cache[i].update(time, inputs[i]._data)
RECURSIVE EvalInputs(_, _, _, _, _)
EvalInputs(tr, time, snap, i, st) ==
    IF st.err # "none" \/ i >= Len(tr._inputs) THEN st
    ELSE IF ~InRange(snap._cache, i)
         THEN [st EXCEPT !.err = "TypeError"]
         ELSE LET id   == snap._cache[i + 1]
                  data == tr._inputs[i + 1]._data
              IN  EvalInputs(tr, time, snap, i + 1,
                    [st EXCEPT
                       !.cacheHeap[id] = AnimCache_update(@, time, data),
                       !.log = Append(@, [call |-> "update", cache |-> id,
                                          time |-> time, data |-> data])])

\* evaluate outputs, interpolating every curve linearly
RECURSIVE EvalCurves_alwaysLinear(_, _, _, _)
EvalCurves_alwaysLinear(tr, snap, i, st) ==
    IF st.err # "none" \/ i >= Len(tr._curves) THEN st
    ELSE LET curve == tr._curves[i + 1]
         IN  IF \/ ~InRange(snap._cache, curve._input)
                \/ ~InRange(tr._outputs, curve._output)
                \/ ~InRange(snap._results, i)
             THEN [st EXCEPT !.err = "TypeError"]
             ELSE LET id     == snap._cache[curve._input + 1]
                      output == tr._outputs[curve._output + 1]
                      result == snap._results[i + 1]
                  IN  EvalCurves_alwaysLinear(tr, snap, i + 1,
                        [st EXCEPT
                           !.bufHeap[result] =
                               AnimCache_eval(st.cacheHeap[id], @, "Linear", output),
                           !.log = Append(@, [call |-> "eval", cache |-> id,
                                              result |-> result,
                                              interpolation |-> curve._interpolation,
                                              output |-> output])])

\* evaluate outputs: for (i = 0; i < curves.length; ++i)
\*     cache[curve._input].eval(results[i], curve._interpolation,
\*                              outputs[curve._output])
RECURSIVE EvalCurves(_, _, _, _)
EvalCurves(tr, snap, i, st) ==
    IF st.err # "none" \/ i >= Len(tr._curves) THEN st
    ELSE LET curve == tr._curves[i + 1]
         IN  IF \/ ~InRange(snap._cache, curve._input)
                \/ ~InRange(tr._outputs, curve._output)
                \/ ~InRange(snap._results, i)
             THEN [st EXCEPT !.err = "TypeError"]
             ELSE LET id     == snap._cache[curve._input + 1]
                      output == tr._outputs[curve._output + 1]
                      result == snap._results[i + 1]
                  IN  EvalCurves(tr, snap, i + 1,
                        [st EXCEPT
                           !.bufHeap[result] =
                               AnimCache_eval(st.cacheHeap[id], @,
                                              curve._interpolation, output),
                           !.log = Append(@, [call |-> "eval", cache |-> id,
                                              result |-> result,
                                              interpolation |-> curve._interpolation,
                                              output |-> output])])

\* AnimTrack.eval that wraps the time into the track's duration
AnimTrack_eval_wrapped(tr, time, snap, ch, bh) ==
    LET wrapped     == IF tr._duration > 0 THEN time % tr._duration ELSE time
        afterInputs == EvalInputs(tr, wrapped, snap, 0, EvalState(ch, bh, <<>>, "none"))
        afterCurves == EvalCurves(tr, snap, 0, afterInputs)
    IN  [snap      |-> [snap EXCEPT !._time = wrapped],
         cacheHeap |-> afterCurves.cacheHeap,
         bufHeap   |-> afterCurves.bufHeap,
         log       |-> afterCurves.log,
         err       |-> afterCurves.err]

\* AnimTrack.eval that re-evaluates the curves only when time moves forward
AnimTrack_eval_forwardOnly(tr, time, snap, ch, bh) ==
    LET afterInputs == EvalInputs(tr, time, snap, 0, EvalState(ch, bh, <<>>, "none"))
        afterCurves == IF time < snap._time THEN afterInputs
                       ELSE EvalCurves(tr, snap, 0, afterInputs)
    IN  [snap      |-> [snap EXCEPT !._time = time],
         cacheHeap |-> afterCurves.cacheHeap,
         bufHeap   |-> afterCurves.bufHeap,
         log       |-> afterCurves.log,
         err       |-> afterCurves.err]

\* AnimTrack.eval that records the time once the curves are evaluated
AnimTrack_eval_timeLast(tr, time, snap, ch, bh) ==
    LET afterInputs == EvalInputs(tr, time, snap, 0, EvalState(ch, bh, <<>>, "none"))
        afterCurves == EvalCurves(tr, snap, 0, afterInputs)
    IN  [snap      |-> IF afterCurves.err = "none"
                       THEN [snap EXCEPT !._time = time] ELSE snap,
         cacheHeap |-> afterCurves.cacheHeap,
         bufHeap   |-> afterCurves.bufHeap,
         log       |-> afterCurves.log,
         err       |-> afterCurves.err]

\* AnimTrack.eval(time, snapshot): the snapshot object, the heaps, the calls
\* made on the caches, and "TypeError" in err when the call threw
AnimTrack_eval(tr, time, snap, ch, bh) ==
    LET afterInputs == EvalInputs(tr, time, snap, 0, EvalState(ch, bh, <<>>, "none"))
        afterCurves == EvalCurves(tr, snap, 0, afterInputs)
    IN  [snap      |-> [snap EXCEPT !._time = time],
         cacheHeap |-> afterCurves.cacheHeap,
         bufHeap   |-> afterCurves.bufHeap,
         log       |-> afterCurves.log,
         err       |-> afterCurves.err]

(***************************************************************************)
(* The tracks an importer may hand over.  Times are in ticks.  The         *)
(* constructors validate nothing, so tracks whose curves point outside the *)
(* pools, and data with a non-positive component count, are constructible. *)
(***************************************************************************)
KeysA == AnimData(1, <<0, 2, 4>>)
KeysB == AnimData(1, <<0, 1, 3>>)
ValuesScalar == AnimData(1, <<0, 10, 0>>)
ValuesPair == AnimData(2, <<0, 0, 4, 8, 2, 6>>)
ValuesNegative == AnimData(-1, <<7>>)

NoEvents == AnimEvents(<<>>)
StepEvents == AnimEvents(<<[time |-> 1, name |-> "step"]>>)

TrackWalk ==
    AnimTrack("walk", 4, <<KeysA>>, <<ValuesScalar>>,
              <<AnimCurve(0, 0, "Linear")>>, NoEvents)
TrackRun ==
    AnimTrack("run", 4, <<KeysA, KeysB>>, <<ValuesScalar, ValuesPair>>,
              <<AnimCurve(0, 0, "Linear"), AnimCurve(1, 1, "Linear"),
                AnimCurve(0, 1, "Step")>>, NoEvents)
TrackBadInput ==
    AnimTrack("badInput", 4, <<KeysA>>, <<ValuesScalar>>,
              <<AnimCurve(0, 0, "Linear"), AnimCurve(1, 0, "Linear"),
                AnimCurve(0, 0, "Step")>>, NoEvents)
TrackBadOutput ==
    AnimTrack("badOutput", 4, <<KeysA>>, <<ValuesScalar>>,
              <<AnimCurve(0, 0, "Linear"), AnimCurve(0, 2, "Step")>>, NoEvents)
TrackBadData ==
    AnimTrack("badData", 4, <<KeysA>>, <<ValuesScalar, ValuesNegative>>,
              <<AnimCurve(0, 0, "Linear"), AnimCurve(0, 1, "Step")>>, NoEvents)

Tracks == {TrackWalk, TrackRun, TrackBadInput, TrackBadOutput, TrackBadData}

\* the sorted buffers of key times that span some time: 2 to MaxKeys keys,
\* equal neighbours allowed
IsSorted(keys) == \A i \in 1 .. Len(keys) - 1 : keys[i] <= keys[i + 1]
KeyBuffers ==
    {keys \in UNION {[1 .. n -> 0 .. MaxTime - 1] : n \in 2 .. MaxKeys} :
        IsSorted(keys) /\ keys[1] < keys[Len(keys)]}

\* a track of one Linear curve over the key times, with the values 0, 10, ...
KeyTrack(keys) ==
    AnimTrack("keys", keys[Len(keys)], <<AnimData(1, keys)>>,
              <<AnimData(1, [i \in 1 .. Len(keys) |-> 10 * (i - 1)])>>,
              <<AnimCurve(0, 0, "Linear")>>, NoEvents)

\* the sampling examples, with times in tenths: Linear over the key times
\* 0, 1 with the values 0, 10, and Step over 0, 1, 2 with 5, 7, 9
TrackLinearExample ==
    AnimTrack("linear", 10, <<AnimData(1, <<0, 10>>)>>, <<AnimData(1, <<0, 10>>)>>,
              <<AnimCurve(0, 0, "Linear")>>, NoEvents)
TrackStepExample ==
    AnimTrack("step", 20, <<AnimData(1, <<0, 10, 20>>)>>, <<AnimData(1, <<5, 7, 9>>)>>,
              <<AnimCurve(0, 0, "Step")>>, NoEvents)
\* tracks whose first, or last, two key times are equal
TrackDegenerateStart ==
    AnimTrack("degenerateStart", 10, <<AnimData(1, <<0, 0, 10>>)>>,
              <<AnimData(1, <<3, 7, 9>>)>>, <<AnimCurve(0, 0, "Linear")>>, NoEvents)
TrackDegenerateEnd ==
    AnimTrack("degenerateEnd", 10, <<AnimData(1, <<0, 10, 10>>)>>,
              <<AnimData(1, <<3, 7, 9>>)>>, <<AnimCurve(0, 0, "Linear")>>, NoEvents)
SampleTracks ==
    {TrackLinearExample, TrackStepExample, TrackDegenerateStart, TrackDegenerateEnd}
\* the times the examples are sampled at, in tenths: -1 to 2
SampleTimes == -10 .. 20

Times == -1 .. MaxTime
EventsArgs == {NoEvents, StepEvents}
GetterNames == {"name", "duration", "inputs", "outputs", "curves", "events"}

\* what lastOp records: the operation, the snapshot and time it was given
\* (eval), its other argument by name, and how it ended
Op(op, snap, time, arg, result) ==
    [op |-> op, snap |-> snap, time |-> time, arg |-> arg, result |-> result]

(***************************************************************************)
(* Operations on the track and its snapshots                               *)
(***************************************************************************)
\* new AnimSnapshot(track)
NewSnapshot ==
    /\ Len(snapshots) < MaxSnapshots
    /\ \E r \in {AnimSnapshot(track, cacheHeap, bufHeap)} :
           /\ snapshots' = IF r.ok THEN Append(snapshots, r.snap) ELSE snapshots
           /\ cacheHeap' = r.cacheHeap
           /\ bufHeap' = r.bufHeap
           /\ lastOp' = Op("AnimSnapshot", IF r.ok THEN Len(snapshots) + 1 ELSE 0, 0, "",
                           IF r.ok THEN "ok" ELSE "TypeError")
    /\ callLog' = <<>>
    /\ UNCHANGED <<layoutVars, vrVars, renderVars, pool, track, layerVars>>

\* track.eval(time, snapshots[s])
Eval(s, time) ==
    /\ s \in 1 .. Len(snapshots)
    /\ \E r \in {AnimTrack_eval(track, time, snapshots[s], cacheHeap, bufHeap)} :
           /\ snapshots' = [snapshots EXCEPT ![s] = r.snap]
           /\ cacheHeap' = r.cacheHeap
           /\ bufHeap' = r.bufHeap
           /\ callLog' = r.log
           /\ lastOp' = Op("eval", s, time, "", IF r.err = "none" THEN "ok" ELSE r.err)
    /\ UNCHANGED <<layoutVars, vrVars, renderVars, pool, track, layerVars>>

\* a setter that also resets the curve list
AnimTrack_setEvents_dropCurves(tr, animEvents) ==
    [tr EXCEPT !._animEvents = animEvents, !._curves = <<>>]

\* the new value of the track after `track.events = animEvents`
AnimTrack_setEvents(tr, animEvents) == [tr EXCEPT !._animEvents = animEvents]

\* the value the getter `name` of the track returns
AnimTrack_get(tr, name) ==
    CASE name = "name"     -> tr._name
      [] name = "duration" -> tr._duration
      [] name = "inputs"   -> tr._inputs
      [] name = "outputs"  -> tr._outputs
      [] name = "curves"   -> tr._curves
      [] name = "events"   -> tr._animEvents.events

\* track.events = animEvents
SetEvents(animEvents) ==
    /\ track' = AnimTrack_setEvents(track, animEvents)
    /\ callLog' = <<>>
    /\ lastOp' = Op("setEvents", 0, 0, "", "ok")
    /\ UNCHANGED <<layoutVars, vrVars, renderVars, pool, cacheHeap, bufHeap, snapshots, layerVars>>

\* a read of one of the track's getters
Get(name) ==
    /\ lastOp' = Op("get", 0, 0, name, "ok")
    /\ callLog' = <<>>
    /\ UNCHANGED <<layoutVars, vrVars, renderVars, pool, track, cacheHeap, bufHeap, snapshots, layerVars>>

(***************************************************************************)
(* AnimComponentLayer.  The controller, the owning AnimComponent, Debug    *)
(* and AnimTransition are collaborators whose sources are not among the    *)
(* sources; they are modelled from the design description, and record the  *)
(* calls the layer makes on them during the last operation.                *)
(***************************************************************************)
ANIM_LAYER_OVERWRITE == "OVERWRITE"
ANIM_LAYER_ADDITIVE == "ADDITIVE"
BlendTypes == {ANIM_LAYER_OVERWRITE, ANIM_LAYER_ADDITIVE}
\* the weights assigned to a layer
WeightArgs == 0 .. 2

StateNames == {"idle", "walk"}
Masks == {"null", "maskSpine", "maskHip"}

\* values a caller may pass as animTrack: ctor is what reading the value's
\* `constructor` property yields; null and undefined have no properties
TrackValue(kind, ctor) == [kind |-> kind, ctor |-> ctor]
AnAnimTrack == TrackValue("AnimTrack", "AnimTrack")
AnimTrackArgs ==
    {AnAnimTrack,
     TrackValue("null", "none"),
     TrackValue("undefined", "none"),
     TrackValue("plainObject", "Object"),
     TrackValue("otherInstance", "AnimClip")}
HasProperties(value) == value.kind \notin {"null", "undefined"}

\* new AnimTransition({ from, to })
AnimTransition(from, to) == [from |-> from, to |-> to]

\* new AnimComponentLayer(name, controller, component, weight, blendType)
AnimComponentLayer(name, weight, blendType) ==
    [_name |-> name, _weight |-> weight, _blendType |-> blendType, _mask |-> "null"]

Unassigned == [assigned |-> FALSE, speed |-> 1, loop |-> TRUE]

\* no state: the name of the active state of an idle controller and of the
\* previous state outside a transition
NoState == "none"
\* the value of a number that is absent (null)
Null == <<0, 0>>

\* the controller starts Idle: no active state, not playing, no transition
NewController(transitions) ==
    [_transitions       |-> transitions,
     mask               |-> "null",
     states             |-> [n \in StateNames |-> Unassigned],
     calls              |-> <<>>,
     playing            |-> FALSE,
     activeStateName    |-> NoState,
     activeTime         |-> 0,
     previousStateName  |-> NoState,
     previousTime       |-> 0,
     transitioning      |-> FALSE,
     transitionProgress |-> Rat(0, 1),
     transitionDuration |-> 0]

\* rebindSaw: the mask the layer's getter returned while the component's
\* rebind was running, "none" when the operation ran no rebind
NewComponent(activate) ==
    [activate |-> activate, playing |-> FALSE, rebindCalls |-> 0, dirtifyCalls |-> 0,
     rebindSaw |-> "none"]

\* controller.assignMask(mask): the controller afterwards; the call returns
\* whether the channel set changed, i.e. whether the mask differs
Controller_assignMask(c, mask) ==
    [c EXCEPT !.mask = mask, !.calls = Append(@, <<"assignMask", mask>>)]
Controller_assignMaskResult(c, mask) == mask # c.mask

\* controller.assignAnimation(nodePath, animTrack, speed, loop)
Controller_assignAnimation(c, nodePath, speed, loop) ==
    [c EXCEPT !.states[nodePath] = [assigned |-> TRUE, speed |-> speed, loop |-> loop],
              !.calls = Append(@, <<"assignAnimation", nodePath>>)]

\* controller.playable: every state has an assigned track
Controller_playable(c) == \A n \in StateNames : c.states[n].assigned

\* component.playable, for a component with this one layer
Component_playable(c) == Controller_playable(c)

Component_rebind(comp) == [comp EXCEPT !.rebindCalls = @ + 1]
Component_dirtifyTargets(comp) == [comp EXCEPT !.dirtifyCalls = @ + 1]

\* the controller with no transition in flight
Controller_clearTransition(c) ==
    [c EXCEPT !.previousStateName = NoState, !.previousTime = 0,
              !.transitioning = FALSE, !.transitionProgress = Rat(0, 1),
              !.transitionDuration = 0]

\* controller.play(name): the named state, or with no name the one currently
\* configured, is active (a named state starts from its beginning); time
\* advances again; a transition in flight is cleared
Controller_play(c, name) ==
    LET c1 == Controller_clearTransition(c)
        c2 == IF name = "undefined" THEN c1
              ELSE [c1 EXCEPT !.activeStateName = name, !.activeTime = 0]
    IN  [c2 EXCEPT !.playing = TRUE, !.calls = Append(@, <<"play", name>>)]

\* controller.pause(): time stops advancing, the position is kept
Controller_pause(c) ==
    [c EXCEPT !.playing = FALSE, !.calls = Append(@, <<"pause">>)]

\* controller.reset(): back to Idle, paused
Controller_reset(c) ==
    [Controller_clearTransition(c) EXCEPT
        !.activeStateName = NoState, !.activeTime = 0, !.playing = FALSE,
        !.calls = Append(@, <<"reset">>)]

\* controller.rebind(): the bindings are made anew, playback is as it was
Controller_rebind(c) == [c EXCEPT !.calls = Append(@, <<"rebind">>)]

\* the duration of a state: that of the track assigned to it
Controller_duration(c, name) ==
    IF name \in StateNames /\ c.states[name].assigned THEN TrackWalk._duration ELSE 0

\* a state's time after dt, and whether a state that does not loop reached
\* its end: time += dt * speed, wrapped modulo the duration when looping and
\* clamped to it otherwise; a state with no track has no time to advance
Controller_advance(c, name, time, dt) ==
    LET duration == Controller_duration(c, name)
        raw == time + dt * c.states[name].speed
    IN  IF duration = 0 THEN [time |-> time, ended |-> FALSE]
        ELSE IF c.states[name].loop THEN [time |-> raw % duration, ended |-> FALSE]
        ELSE [time |-> Min(raw, duration), ended |-> raw >= duration]

RatAdd(a, b) == Rat(a[1] * b[2] + b[1] * a[2], a[2] * b[2])

\* controller.update(dt)
Controller_update(c, dt) ==
    LET logged == [c EXCEPT !.calls = Append(@, <<"update", dt>>)]
    IN  IF ~c.playing THEN logged
        ELSE LET active == IF c.activeStateName = NoState
                           THEN [time |-> c.activeTime, ended |-> FALSE]
                           ELSE Controller_advance(c, c.activeStateName, c.activeTime, dt)
                 progress == IF c.transitioning
                             THEN RatAdd(c.transitionProgress, Rat(dt, c.transitionDuration))
                             ELSE c.transitionProgress
                 completed == c.transitioning /\ progress[1] >= progress[2]
                 c1 == [logged EXCEPT !.activeTime = active.time,
                                      !.playing = ~active.ended]
             IN  IF ~c.transitioning THEN c1
                 ELSE IF completed THEN Controller_clearTransition(c1)
                 ELSE [c1 EXCEPT
                          !.transitionProgress = progress,
                          !.previousTime =
                              Controller_advance(c, c.previousStateName,
                                                 c.previousTime, dt).time]

\* new AnimTransition({ from, to, time, transitionOffset })
AnimTransitionOpts(from, to, time, transitionOffset) ==
    [from |-> from, to |-> to, time |-> time, transitionOffset |-> transitionOffset]

\* the time the destination of a transition starts from
Controller_startTime(c, transition) ==
    IF transition.transitionOffset = Null THEN 0
    ELSE (transition.transitionOffset[1] * Controller_duration(c, transition.to))
             \div transition.transitionOffset[2]

\* controller.updateStateFromTransition(transition) reports a usage error for
\* a destination that names no state
Controller_updateStateFromTransitionResult(c, transition) ==
    IF transition.to \in StateNames THEN "ok" ELSE "usageError"

\* controller.updateStateFromTransition(transition): the active state
\* becomes the previous one and the destination the active one, with the
\* progress at 0; with duration 0, or with no active state to fade from, the
\* destination is active at once
Controller_updateStateFromTransition(c, transition) ==
    LET logged == [c EXCEPT !.calls = Append(@, <<"updateStateFromTransition", transition>>)]
        start == Controller_startTime(c, transition)
    IN  IF transition.to \notin StateNames THEN logged
        ELSE IF transition.time = 0 \/ c.activeStateName = NoState
        THEN [Controller_clearTransition(logged) EXCEPT
                 !.activeStateName = transition.to, !.activeTime = start]
        ELSE [logged EXCEPT
                 !.previousStateName = c.activeStateName,
                 !.previousTime = c.activeTime,
                 !.activeStateName = transition.to,
                 !.activeTime = start,
                 !.transitioning = TRUE,
                 !.transitionProgress = Rat(0, 1),
                 !.transitionDuration = transition.time]

\* controller.removeNodeAnimations(nodeName): the node's tracks are unbound;
\* the call returns whether the active state became unplayable
Controller_removeNodeAnimations(c, nodeName) ==
    [c EXCEPT !.states = [n \in StateNames |-> IF n = nodeName THEN Unassigned ELSE @[n]],
              !.calls = Append(@, <<"removeNodeAnimations", nodeName>>)]
Controller_removeNodeAnimationsResult(c, nodeName) ==
    /\ nodeName = c.activeStateName
    /\ nodeName \in StateNames
    /\ c.states[nodeName].assigned

\* the track bound to a state
Controller_track(c, name) == TrackWalk

\* the pure sample of a track at a time: the result arrays of an evaluation
\* on a snapshot of its own
PureSample(tr, time) ==
    LET made == AnimSnapshot(tr, <<>>, <<>>)
        done == AnimTrack_eval(tr, time, made.snap, made.cacheHeap, made.bufHeap)
    IN  [k \in 1 .. Len(made.snap._results) |-> done.bufHeap[made.snap._results[k]]]

\* a + (b - a) * p on rationals
RatLerp(a, b, p) ==
    Rat(a[1] * b[2] * p[2] + (b[1] * a[2] - a[1] * b[2]) * p[1], a[2] * b[2] * p[2])

\* lerp(previous.results, active.results, progress) per matching channel
LerpResults(previous, active, progress) ==
    [k \in 1 .. Min(Len(previous), Len(active)) |->
        [j \in 1 .. Min(Len(previous[k]), Len(active[k])) |->
            RatLerp(previous[k][j], active[k][j], progress)]]

\* the samples of the previous and of the active state
Controller_previousResults(c) ==
    PureSample(Controller_track(c, c.previousStateName), c.previousTime)
Controller_activeResults(c) ==
    PureSample(Controller_track(c, c.activeStateName), c.activeTime)

\* pose blend with the two states exchanged
Controller_output_exchanged(c) ==
    IF c.activeStateName = NoState THEN <<>>
    ELSE IF c.transitioning
    THEN LerpResults(Controller_activeResults(c), Controller_previousResults(c),
                     c.transitionProgress)
    ELSE Controller_activeResults(c)

\* pose blend: the values the layer puts out
Controller_output(c) ==
    IF c.activeStateName = NoState THEN <<>>
    ELSE IF c.transitioning
    THEN LerpResults(Controller_previousResults(c), Controller_activeResults(c),
                     c.transitionProgress)
    ELSE Controller_activeResults(c)

\* the calls recorded for the collaborators start afresh with each operation
FreshController == [controller EXCEPT !.calls = <<>>]
FreshComponent ==
    [component EXCEPT !.rebindCalls = 0, !.dirtifyCalls = 0, !.rebindSaw = "none"]

\* assignMask that rebinds whatever the controller reports
AnimComponentLayer_assignMask_alwaysRebind(l, c, comp, mask) ==
    [layer      |-> [l EXCEPT !._mask = mask],
     controller |-> Controller_assignMask(c, mask),
     component  |-> Component_rebind(comp)]

\* assignMask that leaves out the store of the mask
AnimComponentLayer_assignMask_notStored(l, c, comp, mask) ==
    LET changed == Controller_assignMaskResult(c, mask)
    IN  [layer      |-> l,
         controller |-> Controller_assignMask(c, mask),
         component  |-> IF changed THEN Component_rebind(comp) ELSE comp]

\* AnimComponentLayer.assignMask(mask): layer, controller and component
\* afterwards
AnimComponentLayer_assignMask(l, c, comp, mask) ==
    LET changed == Controller_assignMaskResult(c, mask)
    IN  [layer      |-> [l EXCEPT !._mask = mask],
         controller |-> Controller_assignMask(c, mask),
         component  |-> IF changed THEN Component_rebind(comp) ELSE comp]

AssignMask(mask) ==
    /\ \E r \in {AnimComponentLayer_assignMask(layer, FreshController,
                                                FreshComponent, mask)} :
           /\ layer' = r.layer
           /\ controller' = r.controller
           /\ component' = r.component
    /\ lastOp' = Op("assignMask", 0, 0, mask, "ok")
    /\ UNCHANGED <<layoutVars, vrVars, renderVars, pool, animVars>>

\* assignMask statement by statement, with the store of the mask moved
\* before the rebind
AssignMaskStatements_storeFirst(l, c, comp, mask, rebindThrows) ==
    LET changed == Controller_assignMaskResult(c, mask)
        stored  == [l EXCEPT !._mask = mask]
    IN  [layer      |-> stored,
         controller |-> Controller_assignMask(c, mask),
         component  |-> IF changed
                        THEN [Component_rebind(comp) EXCEPT !.rebindSaw = stored._mask]
                        ELSE comp,
         result     |-> IF changed /\ rebindThrows THEN "rebindThrew" ELSE "ok"]

\* AnimComponentLayer.assignMask(mask) statement by statement, with a
\* rebind that may throw: the controller's assignMask, then the rebind if a
\* change was reported, which sees the layer as it is then, then the store
\* of the mask, which a throwing rebind skips
AssignMaskStatements(l, c, comp, mask, rebindThrows) ==
    LET changed == Controller_assignMaskResult(c, mask)
        c1      == Controller_assignMask(c, mask)
        comp1   == IF changed
                   THEN [Component_rebind(comp) EXCEPT !.rebindSaw = l._mask]
                   ELSE comp
    IN  IF changed /\ rebindThrows
        THEN [layer |-> l, controller |-> c1, component |-> comp1,
              result |-> "rebindThrew"]
        ELSE [layer |-> [l EXCEPT !._mask = mask], controller |-> c1,
              component |-> comp1, result |-> "ok"]

AssignMaskRebinding(mask, rebindThrows) ==
    /\ \E r \in {AssignMaskStatements(layer, FreshController, FreshComponent,
                                       mask, rebindThrows)} :
           /\ layer' = r.layer
           /\ controller' = r.controller
           /\ component' = r.component
           /\ lastOp' = Op("assignMask", 0, 0, mask, r.result)
    /\ UNCHANGED <<layoutVars, vrVars, renderVars, pool, animVars>>

\* get mask()
AnimComponentLayer_mask(l) == l._mask

\* set weight(value) that notifies only when the value differs
AnimComponentLayer_setWeight_onlyOnChange(l, comp, value) ==
    [layer     |-> [l EXCEPT !._weight = value],
     component |-> IF value # l._weight THEN Component_dirtifyTargets(comp) ELSE comp]

\* set weight(value): layer and component afterwards
AnimComponentLayer_setWeight(l, comp, value) ==
    [layer     |-> [l EXCEPT !._weight = value],
     component |-> Component_dirtifyTargets(comp)]

\* get weight()
AnimComponentLayer_weight(l) == l._weight

\* the step records whether the value differs from the one held
SetWeight(value) ==
    /\ \E r \in {AnimComponentLayer_setWeight(layer, FreshComponent, value)} :
           /\ layer' = r.layer
           /\ component' = r.component
    /\ controller' = FreshController
    /\ lastOp' = Op("setWeight", 0, 0, value,
                     IF value = layer._weight THEN "same" ELSE "changed")
    /\ UNCHANGED <<layoutVars, vrVars, renderVars, pool, animVars>>

\* set blendType(value) that rebinds on every assignment
AnimComponentLayer_setBlendType_alwaysRebind(l, comp, value) ==
    [layer     |-> [l EXCEPT !._blendType = value],
     component |-> Component_rebind(comp)]

\* set blendType(value): layer and component afterwards
AnimComponentLayer_setBlendType(l, comp, value) ==
    IF value # l._blendType
    THEN [layer     |-> [l EXCEPT !._blendType = value],
          component |-> Component_rebind(comp)]
    ELSE [layer |-> l, component |-> comp]

\* get blendType()
AnimComponentLayer_blendType(l) == l._blendType

SetBlendType(value) ==
    /\ \E r \in {AnimComponentLayer_setBlendType(layer, FreshComponent, value)} :
           /\ layer' = r.layer
           /\ component' = r.component
    /\ controller' = FreshController
    /\ lastOp' = Op("setBlendType", 0, 0, value,
                     IF value = layer._blendType THEN "same" ELSE "changed")
    /\ UNCHANGED <<layoutVars, vrVars, renderVars, pool, animVars>>

\* assignAnimation that sets playing to the outcome of the activation check
AnimComponentLayer_assignAnimation_playingFollows(c, comp, nodePath, animTrack, speed, loop) ==
    IF ~HasProperties(animTrack)
    THEN [controller |-> c, component |-> comp, result |-> "TypeError"]
    ELSE IF animTrack.ctor # "AnimTrack"
    THEN [controller |-> c, component |-> comp, result |-> "usageError"]
    ELSE LET c1 == Controller_assignAnimation(c, nodePath, speed, loop)
             c2 == IF Len(c1._transitions) = 0
                   THEN [c1 EXCEPT !._transitions =
                            Append(@, AnimTransition("START", nodePath))]
                   ELSE c1
         IN  [controller |-> c2,
              component  |-> [comp EXCEPT !.playing =
                                 comp.activate /\ Component_playable(c2)],
              result     |-> "ok"]

\* assignAnimation that adds a default transition with every assignment
AnimComponentLayer_assignAnimation_alwaysAppends(c, comp, nodePath, animTrack, speed, loop) ==
    IF ~HasProperties(animTrack)
    THEN [controller |-> c, component |-> comp, result |-> "TypeError"]
    ELSE IF animTrack.ctor # "AnimTrack"
    THEN [controller |-> c, component |-> comp, result |-> "usageError"]
    ELSE LET c1 == Controller_assignAnimation(c, nodePath, speed, loop)
             c2 == [c1 EXCEPT !._transitions =
                       Append(@, AnimTransition("START", nodePath))]
         IN  [controller |-> c2,
              component  |-> IF comp.activate /\ Component_playable(c2)
                             THEN [comp EXCEPT !.playing = TRUE]
                             ELSE comp,
              result     |-> "ok"]

\* AnimComponentLayer.assignAnimation(nodePath, animTrack, speed, loop):
\* controller and component afterwards, and how the call ended: "TypeError"
\* (the read of animTrack.constructor threw), "usageError" (Debug.error was
\* called and the method returned) or "ok"
AnimComponentLayer_assignAnimation(c, comp, nodePath, animTrack, speed, loop) ==
    IF ~HasProperties(animTrack)
    THEN [controller |-> c, component |-> comp, result |-> "TypeError"]
    ELSE IF animTrack.ctor # "AnimTrack"
    THEN [controller |-> c, component |-> comp, result |-> "usageError"]
    ELSE LET c1 == Controller_assignAnimation(c, nodePath, speed, loop)
             c2 == IF Len(c1._transitions) = 0
                   THEN [c1 EXCEPT !._transitions =
                            Append(@, AnimTransition("START", nodePath))]
                   ELSE c1
         IN  [controller |-> c2,
              component  |-> IF comp.activate /\ Component_playable(c2)
                             THEN [comp EXCEPT !.playing = TRUE]
                             ELSE comp,
              result     |-> "ok"]

AssignAnimation(nodePath, animTrack, speed, loop) ==
    /\ \E r \in {AnimComponentLayer_assignAnimation(FreshController, FreshComponent,
                                                     nodePath, animTrack, speed, loop)} :
           /\ controller' = r.controller
           /\ component' = r.component
           /\ lastOp' = Op("assignAnimation", 0, 0, animTrack.kind, r.result)
    /\ UNCHANGED <<layoutVars, vrVars, renderVars, pool, animVars, layer>>

\* removeNodeAnimations that stops the component whatever the controller
\* reports
AnimComponentLayer_removeNodeAnimations_alwaysStops(c, comp, nodeName) ==
    [controller |-> Controller_removeNodeAnimations(c, nodeName),
     component  |-> [comp EXCEPT !.playing = FALSE]]

\* AnimComponentLayer.removeNodeAnimations(nodeName)
AnimComponentLayer_removeNodeAnimations(c, comp, nodeName) ==
    [controller |-> Controller_removeNodeAnimations(c, nodeName),
     component  |-> IF Controller_removeNodeAnimationsResult(c, nodeName)
                    THEN [comp EXCEPT !.playing = FALSE]
                    ELSE comp]

RemoveNodeAnimations(nodeName) ==
    /\ \E r \in {AnimComponentLayer_removeNodeAnimations(FreshController,
                                                          FreshComponent, nodeName)} :
           /\ controller' = r.controller
           /\ component' = r.component
    /\ lastOp' = Op("removeNodeAnimations", 0, 0, nodeName,
                     IF Controller_removeNodeAnimationsResult(controller, nodeName)
                     THEN "unplayable" ELSE "ok")
    /\ UNCHANGED <<layoutVars, vrVars, renderVars, pool, animVars, layer>>

\* the getters that read the controller
AnimComponentLayer_playing(c) == c.playing
AnimComponentLayer_activeState(c) == c.activeStateName
AnimComponentLayer_previousState(c) == c.previousStateName
\* transitioning that reads the playing flag
AnimComponentLayer_transitioning_readsPlaying(c) == c.playing
AnimComponentLayer_transitioning(c) == c.transitioning
\* transitionProgress that returns the controller's value in every state
AnimComponentLayer_transitionProgress_unguarded(c) == c.transitionProgress
AnimComponentLayer_transitionProgress(c) ==
    IF AnimComponentLayer_transitioning(c) THEN c.transitionProgress ELSE Null

\* play that drops the name
AnimComponentLayer_play_noName(c, name) == Controller_play(c, "undefined")
\* play that only sets the active state through a transition
AnimComponentLayer_play_asTransition(c, name) ==
    IF name = "undefined" THEN Controller_play(c, name)
    ELSE Controller_updateStateFromTransition(
             c, AnimTransitionOpts(c.activeStateName, name, 0, Null))
\* AnimComponentLayer.play(name)
AnimComponentLayer_play(c, name) == Controller_play(c, name)

\* pause that resets
AnimComponentLayer_pause_resets(c) == Controller_reset(c)
\* AnimComponentLayer.pause()
AnimComponentLayer_pause(c) == Controller_pause(c)

\* AnimComponentLayer.reset()
AnimComponentLayer_reset(c) == Controller_reset(c)

\* AnimComponentLayer.rebind()
AnimComponentLayer_rebind(c) == Controller_rebind(c)

\* update that hands the controller twice the step
AnimComponentLayer_update_doubled(c, dt) == Controller_update(c, dt + dt)
\* AnimComponentLayer.update(dt)
AnimComponentLayer_update(c, dt) == Controller_update(c, dt)

\* transition that leaves out the duration
AnimComponentLayer_transition_instant(c, to, time, transitionOffset) ==
    Controller_updateStateFromTransition(
        c, AnimTransitionOpts(c.activeStateName, to, 0, transitionOffset))

\* transition that hands the active state over as the destination
AnimComponentLayer_transition_swapped(c, to, time, transitionOffset) ==
    Controller_updateStateFromTransition(
        c, AnimTransitionOpts(to, c.activeStateName, time, transitionOffset))

\* AnimComponentLayer.transition(to, time, transitionOffset): the controller
\* afterwards and what the controller reported
AnimComponentLayer_transition(c, to, time, transitionOffset) ==
    Controller_updateStateFromTransition(
        c, AnimTransitionOpts(c.activeStateName, to, time, transitionOffset))

\* a step of the layer that only forwards to the controller
Forward(c, op, time, arg, result) ==
    /\ controller' = c
    /\ component' = FreshComponent
    /\ lastOp' = Op(op, 0, time, arg, result)
    /\ UNCHANGED <<layoutVars, vrVars, renderVars, pool, animVars, layer>>

\* the step records whether a transition was in flight when play was called
Play(name) == \E c \in {AnimComponentLayer_play(FreshController, name)} :
    Forward(c, "play", 0, name, IF controller.transitioning THEN "cleared" ELSE "ok")
Pause == \E c \in {AnimComponentLayer_pause(FreshController)} :
    Forward(c, "pause", 0, "", "ok")
Reset == \E c \in {AnimComponentLayer_reset(FreshController)} :
    Forward(c, "reset", 0, "", "ok")
Rebind == \E c \in {AnimComponentLayer_rebind(FreshController)} :
    Forward(c, "rebind", 0, "", "ok")
Update(dt) == \E c \in {AnimComponentLayer_update(FreshController, dt)} :
    Forward(c, "update", dt, "", "ok")
Transition(to, time, transitionOffset) ==
    \E c \in {AnimComponentLayer_transition(FreshController, to, time, transitionOffset)} :
        Forward(c, "transition", time, to,
                Controller_updateStateFromTransitionResult(
                    controller, AnimTransitionOpts(controller.activeStateName, to,
                                                   time, transitionOffset)))

\* the names handed to play: a state's name, or none
PlayArgs == StateNames \cup {"undefined"}
\* the destinations handed to transition; "ghost" names no state
TransitionArgs == StateNames \cup {"ghost"}
\* the offsets handed to transition: none, or the middle of the destination
OffsetArgs == {Null, Rat(1, 2)}

(***************************************************************************)
(* Render: the meshes of a hierarchy node.  Meshes and arrays are objects  *)
(* on heaps; a render holds a reference to an array, 0 standing for null,  *)
(* and an array holds references to meshes, 0 standing for null.  mesh.js  *)
(* is not among the sources: a mesh is modelled as a reference count and a *)
(* destroyed flag.                                                         *)
(***************************************************************************)
MeshIds == 1 .. 2

\* the arrays of meshes the application has built: one mesh, two meshes, and
\* an array with a null entry and the same mesh twice
MeshLists == << <<1>>, <<1, 2>>, <<2, 0, 2>> >>

\* a mesh on which `others` references are held by owners that are no renders
NewMesh(others) == [refCount |-> others, destroyed |-> FALSE, others |-> others]

Mesh_incRefCount(mesh) == [mesh EXCEPT !.refCount = @ + 1]
Mesh_decRefCount(mesh) == [mesh EXCEPT !.refCount = @ - 1]
Mesh_getRefCount(mesh) == mesh.refCount
Mesh_destroy(mesh) == [mesh EXCEPT !.destroyed = TRUE]

\* the heaps, the renders and the calls made so far by an operation
RenderState(ms, ls, rs, events) ==
    [meshes |-> ms, lists |-> ls, renders |-> rs, events |-> events]

\* a call on a mesh, with the reference count it left
MeshCall(call, mesh, count) == [call |-> call, mesh |-> mesh, count |-> count]

\* the loop of decRefMeshes that destroys a mesh at its last but one
\* reference
RECURSIVE Render_decRefMeshesFrom_eager(_, _, _)
Render_decRefMeshesFrom_eager(st, r, i) ==
    LET id == st.renders[r]
    IN  IF i >= Len(st.lists[id]) THEN st
        ELSE LET mesh == st.lists[id][i + 1]
             IN  IF mesh = 0 THEN Render_decRefMeshesFrom_eager(st, r, i + 1)
                 ELSE LET dec == Mesh_decRefCount(st.meshes[mesh])
                          st1 == [st EXCEPT
                                    !.meshes[mesh] = dec,
                                    !.events = Append(@, MeshCall("decRefCount", mesh,
                                                                  dec.refCount))]
                          st2 == IF Mesh_getRefCount(dec) < 2
                                 THEN [st1 EXCEPT
                                         !.meshes[mesh] = Mesh_destroy(@),
                                         !.lists[id][i + 1] = 0,
                                         !.events = Append(@, MeshCall("destroy", mesh,
                                                                       dec.refCount))]
                                 ELSE st1
                      IN  Render_decRefMeshesFrom_eager(st2, r, i + 1)

\* the loop of decRefMeshes from index i on: for (let i = 0; i < count; i++)
RECURSIVE Render_decRefMeshesFrom(_, _, _)
Render_decRefMeshesFrom(st, r, i) ==
    LET id == st.renders[r]
    IN  IF i >= Len(st.lists[id]) THEN st
        ELSE LET mesh == st.lists[id][i + 1]
             IN  IF mesh = 0 THEN Render_decRefMeshesFrom(st, r, i + 1)
                 ELSE LET dec == Mesh_decRefCount(st.meshes[mesh])
                          st1 == [st EXCEPT
                                    !.meshes[mesh] = dec,
                                    !.events = Append(@, MeshCall("decRefCount", mesh,
                                                                  dec.refCount))]
                          st2 == IF Mesh_getRefCount(dec) < 1
                                 THEN [st1 EXCEPT
                                         !.meshes[mesh] = Mesh_destroy(@),
                                         !.lists[id][i + 1] = 0,
                                         !.events = Append(@, MeshCall("destroy", mesh,
                                                                       dec.refCount))]
                                 ELSE st1
                      IN  Render_decRefMeshesFrom(st2, r, i + 1)

\* Render.decRefMeshes()
Render_decRefMeshes(st, r) ==
    IF st.renders[r] = 0 THEN st ELSE Render_decRefMeshesFrom(st, r, 0)

\* the loop of incRefMeshes from index i on
RECURSIVE Render_incRefMeshesFrom(_, _, _)
Render_incRefMeshesFrom(st, r, i) ==
    LET id == st.renders[r]
    IN  IF i >= Len(st.lists[id]) THEN st
        ELSE LET mesh == st.lists[id][i + 1]
             IN  IF mesh = 0 THEN Render_incRefMeshesFrom(st, r, i + 1)
                 ELSE LET inc == Mesh_incRefCount(st.meshes[mesh])
                      IN  Render_incRefMeshesFrom(
                              [st EXCEPT
                                 !.meshes[mesh] = inc,
                                 !.events = Append(@, MeshCall("incRefCount", mesh,
                                                               inc.refCount))],
                              r, i + 1)

\* Render.incRefMeshes()
Render_incRefMeshes(st, r) ==
    IF st.renders[r] = 0 THEN st ELSE Render_incRefMeshesFrom(st, r, 0)

\* set meshes(value): decrement, assign, increment, fire 'set:meshes'
Render_setMeshes(st, r, value) ==
    LET decremented == Render_decRefMeshes(st, r)
        assigned    == [decremented EXCEPT !.renders[r] = value]
        incremented == Render_incRefMeshes(assigned, r)
    IN  [incremented EXCEPT !.events = Append(@, MeshCall("fire", 0, 0))]

\* Render.destroy()
Render_destroy(st, r) == Render_setMeshes(st, r, 0)

\* what renderCall records: the operation, the render, the value assigned
\* and the calls the operation made, in order
RenderCall(op, r, value, events) ==
    [op |-> op, render |-> r, value |-> value, events |-> events]

SetMeshes(r, value) ==
    /\ \E st \in {Render_setMeshes(RenderState(meshes, lists, renders, <<>>), r, value)} :
           /\ meshes' = st.meshes
           /\ lists' = st.lists
           /\ renders' = st.renders
           /\ renderCall' = RenderCall("setMeshes", r, value, st.events)
    /\ lastOp' = Op("setMeshes", 0, 0, "", "ok")
    /\ UNCHANGED <<pool, animVars, layerVars, vrVars, layoutVars>>

Destroy(r) ==
    /\ \E st \in {Render_destroy(RenderState(meshes, lists, renders, <<>>), r)} :
           /\ meshes' = st.meshes
           /\ lists' = st.lists
           /\ renders' = st.renders
           /\ renderCall' = RenderCall("destroy", r, 0, st.events)
    /\ lastOp' = Op("destroy", 0, 0, "", "ok")
    /\ UNCHANGED <<pool, animVars, layerVars, vrVars, layoutVars>>

\* new Render(): _meshes = null
NewRender == 0

InitRenderVars ==
    /\ meshes = [m \in MeshIds |-> NewMesh(0)]
    /\ lists = MeshLists
    /\ renders = [r \in 1 .. MaxRenders |-> NewRender]
    /\ renderCall = RenderCall("init", 0, 0, <<>>)

(***************************************************************************)
(* VrManager: the displays attached to the device.  vr-display.js is not   *)
(* among the sources: a VrDisplay is modelled as the id it takes from the  *)
(* browser's display and a serial number, the identity of the object, that *)
(* grows with every construction.                                          *)
(***************************************************************************)
DisplayIds == 1 .. MaxDisplayIds

VrDisplay(vrDisplayId, serial) == [id |-> vrDisplayId, serial |-> serial]

\* null, and the undefined of a missing _index entry
NoDisplay == [id |-> 0, serial |-> 0]

\* an event fired, or a call made on a display, by the manager
VrLog(name, display) == [name |-> name, display |-> display]

\* a vrdisplayconnect / vrdisplaydisconnect event, in the format of the
\* polyfill (e.detail.display) or of the real API (e.display); 0 is undefined
VrEvent(format, displayId) ==
    IF format = "polyfill" THEN [detail |-> displayId, display |-> 0]
                           ELSE [detail |-> 0, display |-> displayId]

VrEvents == {VrEvent(format, id) : format \in {"polyfill", "real"}, id \in DisplayIds}

\* the manager after its constructor: when WebVR is missing _getDisplays has
\* called back with an error already
NewVrManager(supported) ==
    [_index      |-> [id \in DisplayIds |-> NoDisplay],
     displays    |-> <<>>,
     display     |-> NoDisplay,
     created     |-> 0,
     attached    |-> TRUE,
     enumeration |-> IF supported THEN "pending" ELSE "error",
     log         |-> IF supported THEN <<>> ELSE <<VrLog("error", NoDisplay)>>]

\* Array.prototype.indexOf, from 0; -1 when absent
ArrayIndexOf(array, x) ==
    IF \E i \in DOMAIN array : array[i] = x
    THEN (CHOOSE i \in DOMAIN array : array[i] = x /\ \A j \in 1 .. i - 1 : array[j] # x) - 1
    ELSE -1

\* array.splice(ind, 1): an index of -1 counts from the end
ArraySpliceOne(array, ind) ==
    LET at == IF ind < 0 THEN Len(array) + ind + 1 ELSE ind + 1
    IN  [i \in 1 .. Len(array) - 1 |-> IF i < at THEN array[i] ELSE array[i + 1]]

\* _addDisplay without the look-up in _index
VrManager_addDisplay_unchecked(m, vrDisplayId) ==
    LET display == VrDisplay(vrDisplayId, m.created + 1)
    IN  [m EXCEPT !.created = @ + 1,
                  !._index[display.id] = display,
                  !.displays = Append(@, display),
                  !.display = IF @ = NoDisplay THEN display ELSE @,
                  !.log = Append(@, VrLog("displayconnect", display))]

VrManager_addDisplay(m, vrDisplayId) ==
    IF m._index[vrDisplayId] # NoDisplay THEN m
    ELSE LET display == VrDisplay(vrDisplayId, m.created + 1)
         IN  [m EXCEPT !.created = @ + 1,
                       !._index[display.id] = display,
                       !.displays = Append(@, display),
                       !.display = IF @ = NoDisplay THEN display ELSE @,
                       !.log = Append(@, VrLog("displayconnect", display))]

VrManager_onDisplayConnect(m, e) ==
    IF e.detail # 0 THEN VrManager_addDisplay(m, e.detail)
                    ELSE VrManager_addDisplay(m, e.display)

\* _onDisplayDisconnect promoting the newest display of the list
VrManager_onDisplayDisconnect_promotesNewest(m, e) ==
    LET id      == IF e.detail # 0 THEN e.detail ELSE e.display
        display == m._index[id]
    IN  IF display = NoDisplay THEN m
        ELSE LET ind      == ArrayIndexOf(m.displays, display)
                 displays == ArraySpliceOne(m.displays, ind)
             IN  [m EXCEPT
                    !._index[display.id] = NoDisplay,
                    !.displays = displays,
                    !.display = IF @ = display
                                THEN IF Len(displays) # 0 THEN displays[Len(displays)]
                                                          ELSE NoDisplay
                                ELSE @,
                    !.log = @ \o <<VrLog("destroy", display),
                                   VrLog("displaydisconnect", display)>>]

VrManager_onDisplayDisconnect(m, e) ==
    LET id      == IF e.detail # 0 THEN e.detail ELSE e.display
        display == m._index[id]
    IN  IF display = NoDisplay THEN m
        ELSE LET ind      == ArrayIndexOf(m.displays, display)
                 displays == ArraySpliceOne(m.displays, ind)
             IN  [m EXCEPT
                    !._index[display.id] = NoDisplay,
                    !.displays = displays,
                    !.display = IF @ = display
                                THEN IF Len(displays) # 0 THEN displays[1] ELSE NoDisplay
                                ELSE @,
                    !.log = @ \o <<VrLog("destroy", display),
                                   VrLog("displaydisconnect", display)>>]

\* the loop of the callback the constructor hands to _getDisplays
RECURSIVE VrManager_addDisplays(_, _)
VrManager_addDisplays(m, enumerated) ==
    IF enumerated = <<>> THEN m
    ELSE VrManager_addDisplays(VrManager_addDisplay(m, Head(enumerated)), Tail(enumerated))

\* the callback of the constructor, called with no error
VrManager_onDisplays(m, enumerated) ==
    LET added == VrManager_addDisplays(m, enumerated)
    IN  [added EXCEPT !.enumeration = "ready",
                      !.log = Append(@, VrLog("ready", NoDisplay))]

\* VrManager.destroy(): _detach()
VrManager_destroy(m) == [m EXCEPT !.attached = FALSE]

\* the lists of displays navigator.getVRDisplays() may resolve with
EnumeratedLists ==
    {enumerated \in UNION {[1 .. n -> DisplayIds] : n \in 0 .. MaxEnumerated} :
        \A i, j \in DOMAIN enumerated : enumerated[i] = enumerated[j] => i = j}

\* what vrCall records: the callback that ran and what it was handed
VrCall(op, e, enumerated) == [op |-> op, e |-> e, enumerated |-> enumerated]

NoEvent == [detail |-> 0, display |-> 0]

DisplayConnect(e) ==
    /\ vr.attached
    /\ vr.created < MaxVrDisplays
    /\ vr' = VrManager_onDisplayConnect([vr EXCEPT !.log = <<>>], e)
    /\ vrCall' = VrCall("vrdisplayconnect", e, <<>>)
    /\ lastOp' = Op("vrdisplayconnect", 0, 0, "", "ok")
    /\ UNCHANGED <<pool, animVars, layerVars, renderVars, layoutVars>>

DisplayDisconnect(e) ==
    /\ vr.attached
    /\ vr' = VrManager_onDisplayDisconnect([vr EXCEPT !.log = <<>>], e)
    /\ vrCall' = VrCall("vrdisplaydisconnect", e, <<>>)
    /\ lastOp' = Op("vrdisplaydisconnect", 0, 0, "", "ok")
    /\ UNCHANGED <<pool, animVars, layerVars, renderVars, layoutVars>>

DisplaysEnumerated(enumerated) ==
    /\ vr.enumeration = "pending"
    /\ vr.created + Len(enumerated) <= MaxVrDisplays
    /\ vr' = VrManager_onDisplays([vr EXCEPT !.log = <<>>], enumerated)
    /\ vrCall' = VrCall("getDisplays", NoEvent, enumerated)
    /\ lastOp' = Op("getDisplays", 0, 0, "", "ok")
    /\ UNCHANGED <<pool, animVars, layerVars, renderVars, layoutVars>>

DestroyVrManager ==
    /\ vr.attached
    /\ vr' = VrManager_destroy([vr EXCEPT !.log = <<>>])
    /\ vrCall' = VrCall("destroy", NoEvent, <<>>)
    /\ lastOp' = Op("destroyVrManager", 0, 0, "", "ok")
    /\ UNCHANGED <<pool, animVars, layerVars, renderVars, layoutVars>>

InitVrVars ==
    /\ vr = NewVrManager(TRUE)
    /\ vrCall = VrCall("init", NoEvent, <<>>)

(***************************************************************************)
(* LayoutChildComponent: seven properties whose assignment fires 'resize'. *)
(* A JavaScript value is a pair of its type and a number, so that the      *)
(* values `!==` tells apart and the values it does not can both be         *)
(* assigned.                                                               *)
(***************************************************************************)
JsNumber(n)  == <<"number", n>>
JsNegZero    == <<"negzero", 0>>     \* -0
JsNaN        == <<"nan", 0>>
JsNull       == <<"null", 0>>
JsBoolean(b) == <<"boolean", IF b THEN 1 ELSE 0>>

\* a === b: NaN equals nothing, 0 and -0 equal each other
StrictEquals(a, b) ==
    /\ a # JsNaN
    /\ b # JsNaN
    /\ \/ a = b
       \/ {a, b} = {JsNumber(0), JsNegZero}

ResizeProperties ==
    {"minWidth", "minHeight", "maxWidth", "maxHeight",
     "fitWidthProportion", "fitHeightProportion", "excludeFromLayout"}

\* const _name = '_' + name
PrivateName(name) == "_" \o name

\* the values assigned to the properties
LayoutValues == {JsNumber(0), JsNumber(1), JsNegZero, JsNaN, JsNull, JsBoolean(TRUE)}

\* new LayoutChildComponent(system, entity)
NewLayoutChildComponent ==
    [name \in {PrivateName(n) : n \in ResizeProperties} |->
        CASE name \in {"_maxWidth", "_maxHeight"} -> JsNull
          [] name = "_excludeFromLayout"           -> JsBoolean(FALSE)
          [] OTHER                                 -> JsNumber(0)]

\* the getter defined by defineResizeProperty(name)
LayoutChildComponent_get(c, name) == c[PrivateName(name)]

\* a setter that fires on every assignment
LayoutChildComponent_set_alwaysFires(c, name, value) ==
    [component |-> [c EXCEPT ![PrivateName(name)] = value], fired |-> <<"resize">>]

\* the setter defined by defineResizeProperty(name): the component after the
\* assignment and the events it fired
LayoutChildComponent_set(c, name, value) ==
    IF ~StrictEquals(c[PrivateName(name)], value)
    THEN [component |-> [c EXCEPT ![PrivateName(name)] = value], fired |-> <<"resize">>]
    ELSE [component |-> c, fired |-> <<>>]

\* what layoutCall records: the property assigned, the value, the events
\* fired and the number of assignments made so far
LayoutCall(op, name, value, fired, count) ==
    [op |-> op, name |-> name, value |-> value, fired |-> fired, count |-> count]

SetResizeProperty(name, value) ==
    /\ layoutCall.count < MaxAssignments
    /\ \E r \in {LayoutChildComponent_set(layoutChild, name, value)} :
           /\ layoutChild' = r.component
           /\ layoutCall' = LayoutCall("set", name, value, r.fired, layoutCall.count + 1)
    /\ lastOp' = Op("setResizeProperty", 0, 0, "", "ok")
    /\ UNCHANGED <<pool, animVars, layerVars, renderVars, vrVars>>

InitLayoutVars ==
    /\ layoutChild = NewLayoutChildComponent
    /\ layoutCall = LayoutCall("init", "", JsNull, <<>>, 0)

(***************************************************************************)
(* Specifications                                                          *)
(***************************************************************************)
InitAnimVars ==
    /\ cacheHeap = <<>>
    /\ bufHeap = <<>>
    /\ snapshots = <<>>
    /\ callLog = <<>>

InitLayerVars ==
    /\ layer = AnimComponentLayer("base", 1, ANIM_LAYER_OVERWRITE)
    /\ controller = NewController(<<>>)
    /\ component = NewComponent(FALSE)

\* AnimData construction
InitData ==
    /\ pool = <<>>
    /\ track = TrackWalk
    /\ InitAnimVars
    /\ InitRenderVars
    /\ InitVrVars
    /\ InitLayoutVars
    /\ InitLayerVars
    /\ lastOp = Op("init", 0, 0, "", "ok")

NextData ==
    \E components \in ComponentsArgs, data \in DataArgs :
        ConstructAnimData(components, data)

SpecData == InitData /\ [][NextData]_vars

\* one shared track and the snapshots bound to it
Init ==
    /\ pool = <<>>
    /\ track \in Tracks
    /\ InitAnimVars
    /\ InitRenderVars
    /\ InitVrVars
    /\ InitLayoutVars
    /\ InitLayerVars
    /\ lastOp = Op("init", 0, 0, "", "ok")

Next ==
    \/ NewSnapshot
    \/ \E s \in 1 .. MaxSnapshots, time \in Times : Eval(s, time)
    \/ \E animEvents \in EventsArgs : SetEvents(animEvents)
    \/ \E name \in GetterNames : Get(name)

Spec == Init /\ [][Next]_vars

\* one track over any sorted key buffer and one snapshot of it
InitKeys ==
    /\ pool = <<>>
    /\ \E keys \in KeyBuffers : track = KeyTrack(keys)
    /\ InitAnimVars
    /\ InitRenderVars
    /\ InitVrVars
    /\ InitLayoutVars
    /\ InitLayerVars
    /\ lastOp = Op("init", 0, 0, "", "ok")

NextKeys ==
    \/ Len(snapshots) = 0 /\ NewSnapshot
    \/ \E time \in Times : Eval(1, time)

SpecKeys == InitKeys /\ [][NextKeys]_vars

\* one of the sampling examples and one snapshot of it
InitSample ==
    /\ pool = <<>>
    /\ track \in SampleTracks
    /\ InitAnimVars
    /\ InitRenderVars
    /\ InitVrVars
    /\ InitLayoutVars
    /\ InitLayerVars
    /\ lastOp = Op("init", 0, 0, "", "ok")

NextSample ==
    \/ Len(snapshots) = 0 /\ NewSnapshot
    \/ \E time \in SampleTimes : Eval(1, time)

SpecSample == InitSample /\ [][NextSample]_vars

\* one layer, its controller and its component
InitLayer ==
    /\ pool = <<>>
    /\ track = TrackWalk
    /\ InitAnimVars
    /\ InitRenderVars
    /\ InitVrVars
    /\ InitLayoutVars
    /\ layer = AnimComponentLayer("base", 1, ANIM_LAYER_OVERWRITE)
    /\ \E n \in 0 .. MaxTransitions :
           controller = NewController([i \in 1 .. n |-> AnimTransition("idle", "walk")])
    /\ \E activate \in BOOLEAN : component = NewComponent(activate)
    /\ lastOp = Op("init", 0, 0, "", "ok")

NextLayer ==
    \/ \E mask \in Masks : AssignMask(mask)
    \/ \E nodeName \in StateNames : RemoveNodeAnimations(nodeName)
    \/ \E name \in StateNames : Play(name)
    \/ \E nodePath \in StateNames, animTrack \in AnimTrackArgs,
          speed \in 1 .. 2, loop \in BOOLEAN :
           AssignAnimation(nodePath, animTrack, speed, loop)

SpecLayer == InitLayer /\ [][NextLayer]_vars

\* one layer whose masks are assigned while the component's rebind may throw
NextMask ==
    \E mask \in Masks, rebindThrows \in BOOLEAN : AssignMaskRebinding(mask, rebindThrows)

SpecMask == InitLayer /\ [][NextMask]_vars

\* the renders, the arrays handed to them and the meshes, some of which are
\* referenced by other owners too
InitRender ==
    /\ pool = <<>>
    /\ track = TrackWalk
    /\ InitAnimVars
    /\ InitLayerVars
    /\ meshes \in [MeshIds -> {NewMesh(0), NewMesh(1)}]
    /\ lists = MeshLists
    /\ renders = [r \in 1 .. MaxRenders |-> NewRender]
    /\ renderCall = RenderCall("init", 0, 0, <<>>)
    /\ InitVrVars
    /\ InitLayoutVars
    /\ lastOp = Op("init", 0, 0, "", "ok")

NextRender ==
    \/ \E r \in 1 .. MaxRenders, value \in 0 .. Len(lists) : SetMeshes(r, value)
    \/ \E r \in 1 .. MaxRenders : Destroy(r)

SpecRender == InitRender /\ [][NextRender]_vars

\* the manager after its constructor, with or without WebVR
InitVr ==
    /\ pool = <<>>
    /\ track = TrackWalk
    /\ InitAnimVars
    /\ InitLayerVars
    /\ InitRenderVars
    /\ vr \in {NewVrManager(supported) : supported \in BOOLEAN}
    /\ vrCall = VrCall("init", NoEvent, <<>>)
    /\ InitLayoutVars
    /\ lastOp = Op("init", 0, 0, "", "ok")

NextVr ==
    \/ \E e \in VrEvents : DisplayConnect(e)
    \/ \E e \in VrEvents : DisplayDisconnect(e)
    \/ \E enumerated \in EnumeratedLists : DisplaysEnumerated(enumerated)
    \/ DestroyVrManager

SpecVr == InitVr /\ [][NextVr]_vars

\* a fresh LayoutChildComponent
InitLayout ==
    /\ pool = <<>>
    /\ track = TrackWalk
    /\ InitAnimVars
    /\ InitLayerVars
    /\ InitRenderVars
    /\ InitVrVars
    /\ InitLayoutVars
    /\ lastOp = Op("init", 0, 0, "", "ok")

NextLayout ==
    \E name \in ResizeProperties, value \in LayoutValues : SetResizeProperty(name, value)

SpecLayout == InitLayout /\ [][NextLayout]_vars

\* one layer and the properties assigned to it
InitProps ==
    /\ pool = <<>>
    /\ track = TrackWalk
    /\ InitAnimVars
    /\ InitRenderVars
    /\ InitVrVars
    /\ InitLayoutVars
    /\ InitLayerVars
    /\ lastOp = Op("init", 0, 0, "", "ok")

NextProps ==
    \/ \E mask \in Masks : AssignMask(mask)
    \/ \E value \in WeightArgs : SetWeight(value)
    \/ \E value \in BlendTypes : SetBlendType(value)

SpecProps == InitProps /\ [][NextProps]_vars

\* the controller after both states were assigned a track
PlayableController(loopIdle, loopWalk) ==
    LET r1 == AnimComponentLayer_assignAnimation(NewController(<<>>), NewComponent(FALSE),
                                                 "idle", AnAnimTrack, 1, loopIdle)
        r2 == AnimComponentLayer_assignAnimation(r1.controller, r1.component,
                                                 "walk", AnAnimTrack, 2, loopWalk)
    IN  [r2.controller EXCEPT !.calls = <<>>]

\* one layer whose states all have a track, played back
InitPlayback ==
    /\ pool = <<>>
    /\ track = TrackWalk
    /\ InitAnimVars
    /\ InitRenderVars
    /\ InitVrVars
    /\ InitLayoutVars
    /\ layer = AnimComponentLayer("base", 1, ANIM_LAYER_OVERWRITE)
    /\ \E loopIdle, loopWalk \in BOOLEAN :
           controller = PlayableController(loopIdle, loopWalk)
    /\ component = NewComponent(FALSE)
    /\ lastOp = Op("init", 0, 0, "", "ok")

NextPlayback ==
    \/ \E name \in PlayArgs : Play(name)
    \/ Pause
    \/ Reset
    \/ Rebind
    \/ \E dt \in 1 .. MaxDt : Update(dt)
    \/ \E to \in TransitionArgs, time \in 0 .. MaxTransitionTime,
          transitionOffset \in OffsetArgs :
           Transition(to, time, transitionOffset)

SpecPlayback == InitPlayback /\ [][NextPlayback]_vars

(***************************************************************************)
(* Properties                                                              *)
(***************************************************************************)
\* the caches and result arrays a snapshot refers to, dereferenced
SnapshotView(s) ==
    [time    |-> snapshots[s]._time,
     cache   |-> snapshots[s]._cache,
     results |-> snapshots[s]._results,
     caches  |-> [i \in 1 .. Len(snapshots[s]._cache) |->
                    cacheHeap[snapshots[s]._cache[i]]],
     buffers |-> [k \in 1 .. Len(snapshots[s]._results) |->
                    bufHeap[snapshots[s]._results[k]]]]

Range(f) == {f[i] : i \in DOMAIN f}

\* a curve of the track points outside the input pool / the output pool
BadInputIndex(tr) == \E k \in 1 .. Len(tr._curves) : ~InRange(tr._inputs, tr._curves[k]._input)
BadOutputIndex(tr) == \E k \in 1 .. Len(tr._curves) : ~InRange(tr._outputs, tr._curves[k]._output)

\* C1: every AnimData object that exists has components > 0 and a data
\* length that is a multiple of components (construction rejects the rest).
C1_AnimDataValidated ==
    \A i \in 1 .. Len(pool) :
        /\ pool[i]._components > 0
        /\ Len(pool[i]._data) % pool[i]._components = 0

\* no cache and no result array belongs to two snapshots
C2_Disjoint ==
    \A a, b \in 1 .. Len(snapshots) :
        a # b => /\ Range(snapshots[a]._cache) \cap Range(snapshots[b]._cache) = {}
                 /\ Range(snapshots[a]._results) \cap Range(snapshots[b]._results) = {}

\* an eval step changes neither the track nor any other snapshot
C2_EvalFrame ==
    lastOp'.op = "eval" =>
        /\ track' = track
        /\ \A s \in 1 .. Len(snapshots) :
               s # lastOp'.snap => SnapshotView(s)' = SnapshotView(s)

\* C2: two snapshots of the shared track never share a cache or a result
\* array, and an eval on one snapshot leaves every other snapshot's time,
\* caches and result arrays, and the track, as they were.
C2_SnapshotIsolation == []C2_Disjoint /\ [][C2_EvalFrame]_vars

\* two snapshots evaluated at different times hold different results, the
\* last eval having been on the first
C2_Witness ==
    /\ Len(snapshots) = 2
    /\ lastOp.op = "eval" /\ lastOp.snap = 1 /\ lastOp.result = "ok"
    /\ snapshots[1]._time = 1
    /\ snapshots[2]._time = 3
    /\ SnapshotView(1).buffers # SnapshotView(2).buffers

C3_Frame ==
    /\ \A n \in GetterNames \ {"events"} :
           AnimTrack_get(track', n) = AnimTrack_get(track, n)
    /\ lastOp'.op # "setEvents" => track'._animEvents = track._animEvents

C4_LogShape ==
    LET snap == snapshots[lastOp.snap]
        nIn  == Len(track._inputs)
        nCu  == Len(track._curves)
    IN  /\ Len(callLog) = nIn + nCu
        /\ Len(snap._cache) = nIn
        /\ Len(snap._results) = nCu
        /\ \A i \in 1 .. nIn :
               callLog[i] = [call |-> "update", cache |-> snap._cache[i],
                             time |-> lastOp.time, data |-> track._inputs[i]._data]
        /\ \A k \in 1 .. nCu :
               LET curve == track._curves[k]
               IN  /\ InRange(snap._cache, curve._input)
                   /\ InRange(track._outputs, curve._output)
                   /\ callLog[nIn + k] =
                          [call |-> "eval", cache |-> snap._cache[curve._input + 1],
                           result |-> snap._results[k],
                           interpolation |-> curve._interpolation,
                           output |-> track._outputs[curve._output + 1]]

\* an eval step makes exactly those calls and keeps the result arrays
C4_EvalStep ==
    lastOp'.op = "eval" =>
        /\ C4_LogShape'
        /\ Len(bufHeap') = Len(bufHeap)
        /\ \A s \in 1 .. Len(snapshots) : snapshots'[s]._results = snapshots[s]._results

\* C4: an eval updates the cache of every input exactly once, in index
\* order, with the time and that input's data, and then evaluates every
\* curve exactly once with the cache of the curve's input, the curve's
\* result array, its interpolation and its output; result arrays are kept,
\* none is allocated.
C4_EvalOrder == [][C4_EvalStep]_vars

\* C5: after an eval at time t, whatever evals came before it, the
\* snapshot's time is t and its results are those of one eval at t on a
\* freshly constructed snapshot of the track.
C5_ResultsOfLastTime ==
    lastOp.op = "eval" =>
        LET s     == lastOp.snap
            fresh == AnimSnapshot(track, <<>>, <<>>)
            once  == AnimTrack_eval(track, lastOp.time, fresh.snap,
                                    fresh.cacheHeap, fresh.bufHeap)
        IN  /\ snapshots[s]._time = lastOp.time
            /\ fresh.ok
            /\ SnapshotView(s).buffers =
                   [k \in 1 .. Len(once.snap._results) |->
                       once.bufHeap[once.snap._results[k]]]

\* an eval at time 1 has sampled the pair curve of the run track at its
\* second key, while another snapshot stays at time 5
C5_Witness ==
    /\ lastOp.op = "eval" /\ lastOp.result = "ok" /\ lastOp.time = 1
    /\ track = TrackRun
    /\ \E s \in 1 .. Len(snapshots) :
           s # lastOp.snap /\ snapshots[s]._time = 5
    /\ SnapshotView(lastOp.snap).buffers[2] = <<Rat(4, 1), Rat(8, 1)>>

\* C6: every snapshot has one cache per input and one result array per
\* curve of its track, the array of curve k having as many entries as
\* outputs[curve.output] has components; right after construction the
\* entries are 0 and the time is -1.
C6_SnapshotShape ==
    \A s \in 1 .. Len(snapshots) :
        /\ Len(snapshots[s]._cache) = Len(track._inputs)
        /\ Cardinality(Range(snapshots[s]._cache)) = Len(track._inputs)
        /\ Len(snapshots[s]._results) = Len(track._curves)
        /\ Cardinality(Range(snapshots[s]._results)) = Len(track._curves)
        /\ \A k \in 1 .. Len(track._curves) :
               LET curve == track._curves[k]
               IN  /\ InRange(track._outputs, curve._output)
                   /\ Len(SnapshotView(s).buffers[k]) =
                          track._outputs[curve._output + 1]._components
        /\ (lastOp.op = "AnimSnapshot" /\ lastOp.snap = s) =>
               /\ snapshots[s]._time = -1
               /\ \A k \in 1 .. Len(snapshots[s]._results) :
                      \A j \in 1 .. Len(SnapshotView(s).buffers[k]) :
                          SnapshotView(s).buffers[k][j] = Rat(0, 1)

\* C7: for a track with a curve whose input or output index is outside the
\* pools no snapshot is ever constructed, and neither construction nor
\* eval ends normally.
C7_CorruptTrackRejected ==
    (BadInputIndex(track) \/ BadOutputIndex(track)) =>
        /\ snapshots = <<>>
        /\ lastOp.op \in {"AnimSnapshot", "eval"} => lastOp.result # "ok"

\* C8: an eval hands its time argument unchanged to every cache and records
\* it unchanged in the snapshot, also when it is negative or beyond the
\* track's duration.
C8_TimePassedThrough ==
    lastOp.op = "eval" =>
        /\ snapshots[lastOp.snap]._time = lastOp.time
        /\ Cardinality({i \in 1 .. Len(callLog) : callLog[i].call = "update"})
               = Len(track._inputs)
        /\ \A i \in 1 .. Len(callLog) :
               callLog[i].call = "update" => callLog[i].time = lastOp.time
        /\ \A i \in 1 .. Len(snapshots[lastOp.snap]._cache) :
               SnapshotView(lastOp.snap).caches[i].lastQueryTime = lastOp.time

\* evals beyond the duration and before 0 have been recorded as given
C8_Witness ==
    /\ lastOp.op = "eval" /\ lastOp.result = "ok"
    /\ lastOp.time > track._duration
    /\ snapshots[lastOp.snap]._time = lastOp.time
    /\ \E s \in 1 .. Len(snapshots) : snapshots[s]._time < 0 /\ cacheHeap[snapshots[s]._cache[1]].lastQueryTime < 0

\* an assignAnimation step with a non-track ends in a usage error and
\* changes neither controller nor component
C9_NonTrackStep ==
    (lastOp'.op = "assignAnimation" /\ lastOp'.arg # "AnimTrack") =>
        /\ lastOp'.result = "usageError"
        /\ controller'.calls = <<>>
        /\ controller'._transitions = controller._transitions
        /\ controller'.states = controller.states
        /\ component'.playing = component.playing

\* C9: an assignAnimation whose animTrack is not an AnimTrack reports a
\* usage error and changes nothing: the controller's assignAnimation is not
\* called, its transition list and the component's playing flag stay.
C9_NonTrackIsReportedNoOp == [][C9_NonTrackStep]_vars

\* an assignMask step rebinds as the controller reports and stores the mask
C10_AssignMaskStep ==
    lastOp'.op = "assignMask" =>
        /\ component'.rebindCalls =
               (IF Controller_assignMaskResult(controller, lastOp'.arg) THEN 1 ELSE 0)
        /\ controller'.calls = <<(<<"assignMask", lastOp'.arg>>)>>
        /\ layer'._mask = lastOp'.arg

C11_GetterStep ==
    lastOp'.op = "assignMask" => AnimComponentLayer_mask(layer') = lastOp'.arg

\* assignMask(null) rebinds exactly once, whatever the mask was
C11_NullRebindsOnce ==
    (lastOp'.op = "assignMask" /\ lastOp'.arg = "null") =>
        component'.rebindCalls = 1

\* assignMask(null) rebinds once when a mask was set and not at all when
\* none was
C11_NullRebindsIfSet ==
    (lastOp'.op = "assignMask" /\ lastOp'.arg = "null") =>
        component'.rebindCalls =
            (IF AnimComponentLayer_mask(layer) # "null" THEN 1 ELSE 0)

C12_WeightStep ==
    lastOp'.op = "setWeight" =>
        /\ AnimComponentLayer_weight(layer') = lastOp'.arg
        /\ component'.dirtifyCalls = 1
        /\ component'.rebindCalls = 0

\* C12: every assignment to weight stores the value (the getter returns it)
\* and calls the component's dirtifyTargets exactly once, also when the
\* value equals the current weight; it never calls rebind.
C12_WeightDirtifiesOnce == [][C12_WeightStep]_vars

\* the weight assigned last was the one already held: one dirtifyTargets
C12_Witness ==
    /\ lastOp.op = "setWeight" /\ lastOp.result = "same"
    /\ AnimComponentLayer_weight(layer) = lastOp.arg
    /\ component.dirtifyCalls = 1

\* a blendType assignment rebinds once iff the value differs, and an equal
\* value changes nothing
C13_BlendTypeStep ==
    lastOp'.op = "setBlendType" =>
        /\ AnimComponentLayer_blendType(layer') = lastOp'.arg
        /\ component'.rebindCalls =
               (IF lastOp'.arg # AnimComponentLayer_blendType(layer) THEN 1 ELSE 0)
        /\ component'.dirtifyCalls = 0
        /\ lastOp'.arg = AnimComponentLayer_blendType(layer) =>
               /\ layer' = layer
               /\ controller' = FreshController
               /\ component' = FreshComponent

\* C13: an assignment to blendType calls the component's rebind exactly
\* once when the value differs from the current one and not at all when it
\* is equal; assigning the current value changes no state; the getter
\* returns the value assigned last.
C13_BlendTypeRebindsOnChange == [][C13_BlendTypeStep]_vars

\* the blend type was changed with one rebind
C13_Witness ==
    /\ lastOp.op = "setBlendType" /\ lastOp.result = "changed"
    /\ AnimComponentLayer_blendType(layer) = ANIM_LAYER_ADDITIVE
    /\ component.rebindCalls = 1

\* a successful assignAnimation sets playing to true when the component is
\* to activate and is playable, and leaves it alone otherwise
C14_AssignStep ==
    (lastOp'.op = "assignAnimation" /\ lastOp'.result = "ok") =>
        /\ component'.activate = component.activate
        /\ component'.playing =
               (IF component.activate /\ Component_playable(controller')
                THEN TRUE ELSE component.playing)

\* C14: after a successful assignAnimation the component's playing flag is
\* set to true if and only if component.activate and component.playable
\* both hold at that moment; otherwise it is left unchanged, and
\* assignAnimation never sets it to false.
C14_ActivationCheck == [][C14_AssignStep]_vars

\* the assignment that made the layer playable started the component
C14_Witness ==
    /\ lastOp.op = "assignAnimation" /\ lastOp.result = "ok"
    /\ component.activate /\ Component_playable(controller)
    /\ component.playing

\* removeNodeAnimations stops the component iff the controller reports that
\* the active state became unplayable
C15_RemoveStep ==
    lastOp'.op = "removeNodeAnimations" =>
        /\ controller'.calls = <<(<<"removeNodeAnimations", lastOp'.arg>>)>>
        /\ component'.playing =
               (IF Controller_removeNodeAnimationsResult(controller, lastOp'.arg)
                THEN FALSE ELSE component.playing)

\* C15: removeNodeAnimations(nodeName) sets the component's playing flag to
\* false if and only if the controller's removeNodeAnimations reports that
\* the active state became unplayable; otherwise the flag is unchanged.
C15_StopsIffUnplayable == [][C15_RemoveStep]_vars

\* the tracks of the active state were removed and the component stopped
C15_Witness ==
    /\ lastOp.op = "removeNodeAnimations" /\ lastOp.result = "unplayable"
    /\ lastOp.arg = AnimComponentLayer_activeState(controller)
    /\ ~component.playing

\* the operations that only forward to the controller
ForwardedOps == {"play", "pause", "reset", "rebind", "update"}

\* the controller call a forwarded operation has to make
ForwardedCall(op) ==
    IF op.op = "play" THEN <<"play", op.arg>>
    ELSE IF op.op = "update" THEN <<"update", op.time>>
    ELSE <<op.op>>

\* a forwarded operation calls its controller operation once, with its
\* argument, and leaves the layer's own fields alone
C16_ForwardStep ==
    lastOp'.op \in ForwardedOps =>
        /\ controller'.calls = <<ForwardedCall(lastOp')>>
        /\ AnimComponentLayer_weight(layer') = AnimComponentLayer_weight(layer)
        /\ AnimComponentLayer_blendType(layer') = AnimComponentLayer_blendType(layer)
        /\ AnimComponentLayer_mask(layer') = AnimComponentLayer_mask(layer)

\* the layer's playback getters return the controller's values
C16_Getters ==
    /\ AnimComponentLayer_playing(controller) = controller.playing
    /\ AnimComponentLayer_activeState(controller) = controller.activeStateName
    /\ AnimComponentLayer_previousState(controller) = controller.previousStateName
    /\ AnimComponentLayer_transitioning(controller) = controller.transitioning

\* C16: the layer holds no playback state of its own: play(name), pause(),
\* reset(), rebind() and update(dt) each call the controller operation of
\* the same name exactly once with the same argument and leave the layer's
\* weight, blendType and mask unchanged; the layer's playing, activeState,
\* previousState and transitioning always equal the controller's.
C16_LayerForwards == []C16_Getters /\ [][C16_ForwardStep]_vars

\* play("walk") reached the controller as play("walk")
C16_Witness ==
    /\ lastOp.op = "play" /\ lastOp.arg = "walk"
    /\ controller.calls = <<(<<"play", "walk">>)>>
    /\ AnimComponentLayer_activeState(controller) = "walk"
    /\ AnimComponentLayer_playing(controller)

\* the playback state of a controller: all of it but the record of calls
Playback(c) == [c EXCEPT !.calls = <<>>]

\* a transition to a name that is no state reports a usage error, changes
\* nothing, and the next update advances as it would have
C17_UnknownStep ==
    (lastOp'.op = "transition" /\ lastOp'.arg \notin StateNames) =>
        /\ lastOp'.result = "usageError"
        /\ Playback(controller') = Playback(controller)
        /\ AnimComponentLayer_activeState(controller') =
               AnimComponentLayer_activeState(controller)
        /\ AnimComponentLayer_previousState(controller') =
               AnimComponentLayer_previousState(controller)
        /\ AnimComponentLayer_transitionProgress(controller') =
               AnimComponentLayer_transitionProgress(controller)
        /\ AnimComponentLayer_playing(controller') =
               AnimComponentLayer_playing(controller)
        /\ \A dt \in 1 .. MaxDt :
               Playback(AnimComponentLayer_update(controller', dt)) =
                   Playback(AnimComponentLayer_update(controller, dt))

\* C17: a transition to a state name that does not exist in the layer's
\* graph is a reported usage error that changes no state: active state,
\* previous state, transition progress and playing flag are what they were
\* before the call, and playback continues on the next update.
C17_UnknownTransitionNoChange == [][C17_UnknownStep]_vars

\* a transition to an unknown name was refused in the middle of a cross-fade
C17_Witness ==
    /\ lastOp.op = "transition" /\ lastOp.arg = "ghost"
    /\ lastOp.result = "usageError"
    /\ AnimComponentLayer_playing(controller)
    /\ AnimComponentLayer_transitioning(controller)
    /\ AnimComponentLayer_transitionProgress(controller) = Rat(1, 2)

\* the state of the layer's playback state machine
MachineState(c) ==
    IF AnimComponentLayer_transitioning(c) THEN "Transitioning"
    ELSE IF AnimComponentLayer_activeState(c) = NoState THEN "Idle"
    ELSE "Playing"

\* in a Transitioning state there are an active and a previous state and
\* the progress is in [0,1); outside of one there is no previous state
C18_TransitioningShape ==
    IF MachineState(controller) = "Transitioning"
    THEN /\ AnimComponentLayer_activeState(controller) # NoState
         /\ AnimComponentLayer_previousState(controller) # NoState
         /\ AnimComponentLayer_transitionProgress(controller) # Null
         /\ AnimComponentLayer_transitionProgress(controller)[1] >= 0
         /\ AnimComponentLayer_transitionProgress(controller)[1] <
                AnimComponentLayer_transitionProgress(controller)[2]
    ELSE AnimComponentLayer_previousState(controller) = NoState

\* an update that takes the progress to 1 or beyond completes the
\* transition: the previous state is released, the active one stays
C18_CompletionStep ==
    (/\ lastOp'.op = "update"
     /\ MachineState(controller) = "Transitioning"
     /\ AnimComponentLayer_playing(controller)
     /\ controller.transitionProgress[1] * controller.transitionDuration
            + lastOp'.time * controller.transitionProgress[2]
          >= controller.transitionProgress[2] * controller.transitionDuration) =>
        /\ MachineState(controller') = "Playing"
        /\ AnimComponentLayer_previousState(controller') = NoState
        /\ AnimComponentLayer_activeState(controller') =
               AnimComponentLayer_activeState(controller)

\* the steps the claim lists: Idle to Playing, Playing to Transitioning,
\* and Transitioning to Playing when an update completes the transition
C18_ListedStep ==
    \/ MachineState(controller') = MachineState(controller)
    \/ MachineState(controller) = "Idle" /\ MachineState(controller') = "Playing"
    \/ MachineState(controller) = "Playing" /\ MachineState(controller') = "Transitioning"
    \/ /\ MachineState(controller) = "Transitioning"
       /\ MachineState(controller') = "Playing"
       /\ lastOp'.op = "update"

\* the steps the machine takes: the listed ones, Transitioning to Playing
\* also by play and by a transition of duration 0, and any state to Idle by
\* reset
C18_MachineStep ==
    \/ C18_ListedStep
    \/ /\ MachineState(controller) = "Transitioning"
       /\ MachineState(controller') = "Playing"
       /\ \/ lastOp'.op = "play"
          \/ lastOp'.op = "transition" /\ lastOp'.time = 0
    \/ MachineState(controller') = "Idle" /\ lastOp'.op = "reset"

C19_UpdateStep ==
    (lastOp'.op = "update" /\ ~AnimComponentLayer_playing(controller)) =>
        /\ lastOp'.result = "ok"
        /\ Playback(controller') = Playback(controller)

\* a pause stops the playback and keeps everything else
C19_PauseStep ==
    lastOp'.op = "pause" =>
        Playback(controller') = [Playback(controller) EXCEPT !.playing = FALSE]

\* C19: update(dt) on a layer that is not playing (paused, or never played)
\* is a no-op: state times and transition progress are unchanged and no
\* error is reported; pause preserves the current position and any
\* in-flight transition progress.
C19_PausedUpdateIsNoOp == [][C19_UpdateStep /\ C19_PauseStep]_vars

\* an update of a layer paused in the middle of a cross-fade
C19_Witness ==
    /\ lastOp.op = "update"
    /\ ~AnimComponentLayer_playing(controller)
    /\ AnimComponentLayer_transitioning(controller)
    /\ AnimComponentLayer_transitionProgress(controller) = Rat(1, 3)
    /\ controller.activeTime = 2

\* after play the layer plays the named state, or the one it had, with no
\* transition in flight
C20_PlayStep ==
    lastOp'.op = "play" =>
        /\ AnimComponentLayer_playing(controller')
        /\ ~AnimComponentLayer_transitioning(controller')
        /\ AnimComponentLayer_previousState(controller') = NoState
        /\ AnimComponentLayer_activeState(controller') =
               (IF lastOp'.arg = "undefined"
                THEN AnimComponentLayer_activeState(controller)
                ELSE lastOp'.arg)

\* C20: play(name?) sets the active state (the named one, or the currently
\* configured one when no name is given), resumes time advancement and
\* clears any in-flight transition: immediately after play the layer is
\* playing and not transitioning.
C20_PlayClearsTransition == [][C20_PlayStep]_vars

\* play was called during a cross-fade and ended it
C20_Witness ==
    /\ lastOp.op = "play" /\ lastOp.result = "cleared"
    /\ AnimComponentLayer_playing(controller)
    /\ ~AnimComponentLayer_transitioning(controller)
    /\ AnimComponentLayer_activeState(controller) = "walk"

\* the time of the active state before dt * speed is wrapped or clamped
RawTime(c, dt) == c.activeTime + dt * c.states[c.activeStateName].speed

\* an update of a playing layer advances the active state by dt * speed,
\* wraps a looping state modulo its duration, and clamps a state that does
\* not loop to its duration and stops the playback there
C21_AdvanceStep ==
    (/\ lastOp'.op = "update"
     /\ AnimComponentLayer_playing(controller)
     /\ AnimComponentLayer_activeState(controller) # NoState) =>
        LET name == AnimComponentLayer_activeState(controller)
            duration == Controller_duration(controller, name)
            raw == RawTime(controller, lastOp'.time)
        IN  /\ AnimComponentLayer_activeState(controller') = name
            /\ IF controller.states[name].loop
               THEN /\ controller'.activeTime = raw % duration
                    /\ AnimComponentLayer_playing(controller')
               ELSE /\ controller'.activeTime = Min(raw, duration)
                    /\ AnimComponentLayer_playing(controller') = (raw < duration)

\* the times of the active and the previous state are within their tracks
C21_TimeInRange ==
    /\ AnimComponentLayer_activeState(controller) # NoState =>
           /\ controller.activeTime >= 0
           /\ controller.activeTime <=
                  Controller_duration(controller, controller.activeStateName)
    /\ AnimComponentLayer_previousState(controller) # NoState =>
           /\ controller.previousTime >= 0
           /\ controller.previousTime <=
                  Controller_duration(controller, controller.previousStateName)

\* C21: while playing, update(dt) advances the active state's time by
\* dt * speed and then applies the loop policy: the time of a looping state
\* is wrapped modulo the track duration, the time of a state that does not
\* loop is clamped to the duration and playback stops; the time handed to
\* the evaluation of the track is always within [0, duration].
C21_LoopPolicy == []C21_TimeInRange /\ [][C21_AdvanceStep]_vars

\* the example of duration 2 and steps 1.5, 1.0 in units of half a second:
\* a looping state of duration 4 and speed 1 stepped by 3 and then 2 (raw
\* time 5) is at 1, not at 5
C21_Witness ==
    /\ lastOp.op = "update" /\ lastOp.time = 2
    /\ AnimComponentLayer_activeState(controller) = "idle"
    /\ controller.states["idle"].loop /\ controller.states["idle"].speed = 1
    /\ Controller_duration(controller, "idle") = 4
    /\ ~AnimComponentLayer_transitioning(controller)
    /\ controller.activeTime = 1

\* the transition the controller was handed by the last operation
HandedTransition(c) == c.calls[1][2]

\* offset * duration of the destination, 0 with no offset
OffsetTime(c, to, transitionOffset) ==
    IF transitionOffset = Null THEN 0
    ELSE (transitionOffset[1] * Controller_duration(c, to)) \div transitionOffset[2]

\* a transition to a state of the graph, from an active state
C22_Begins ==
    /\ lastOp'.op = "transition" /\ lastOp'.arg \in StateNames
    /\ AnimComponentLayer_activeState(controller) # NoState

\* the controller is handed the destination and the duration, and the
\* destination starts at offset * duration
C22_DestinationStep ==
    C22_Begins =>
        /\ HandedTransition(controller').from = AnimComponentLayer_activeState(controller)
        /\ HandedTransition(controller').to = lastOp'.arg
        /\ HandedTransition(controller').time = lastOp'.time
        /\ AnimComponentLayer_activeState(controller') = lastOp'.arg
        /\ controller'.activeTime =
               OffsetTime(controller, lastOp'.arg,
                          HandedTransition(controller').transitionOffset)

\* a transition that takes time begins the cross-fade: the active state is
\* the previous one, at the time it had, and the progress is 0
C22_FadeStep ==
    (C22_Begins /\ lastOp'.time > 0) =>
        /\ AnimComponentLayer_transitioning(controller')
        /\ AnimComponentLayer_previousState(controller') =
               AnimComponentLayer_activeState(controller)
        /\ controller'.previousTime = controller.activeTime
        /\ AnimComponentLayer_transitionProgress(controller') = Rat(0, 1)

\* a transition of duration 0 switches at once
C22_InstantStep ==
    (C22_Begins /\ lastOp'.time = 0) =>
        /\ ~AnimComponentLayer_transitioning(controller')
        /\ AnimComponentLayer_previousState(controller') = NoState

\* an update during the fade advances the previous state by its own speed
\* and loop policy
C22_PreviousAdvancesStep ==
    (/\ lastOp'.op = "update"
     /\ AnimComponentLayer_playing(controller)
     /\ AnimComponentLayer_transitioning(controller)
     /\ AnimComponentLayer_transitioning(controller')) =>
        LET name == AnimComponentLayer_previousState(controller)
            duration == Controller_duration(controller, name)
            raw == controller.previousTime + lastOp'.time * controller.states[name].speed
        IN  /\ AnimComponentLayer_previousState(controller') = name
            /\ controller'.previousTime =
                   (IF controller.states[name].loop THEN raw % duration
                    ELSE Min(raw, duration))

\* C22: beginning a transition makes the active state the previous state,
\* makes the destination the active state, starting at transitionOffset *
\* destinationDuration when an offset is given, and resets the progress to
\* 0; during the fade the previous state's time keeps advancing with every
\* update; a transition of duration 0 switches at once, with no
\* Transitioning state in between.
C22_TransitionBegins ==
    [][/\ C22_DestinationStep /\ C22_FadeStep /\ C22_InstantStep
       /\ C22_PreviousAdvancesStep]_vars

\* a cross-fade from idle at time 3 to the middle of walk has begun
C22_Witness ==
    /\ lastOp.op = "transition" /\ lastOp.arg = "walk" /\ lastOp.time = 2
    /\ HandedTransition(controller).transitionOffset = Rat(1, 2)
    /\ AnimComponentLayer_transitioning(controller)
    /\ AnimComponentLayer_previousState(controller) = "idle"
    /\ controller.previousTime = 3
    /\ controller.activeTime = 2
    /\ AnimComponentLayer_transitionProgress(controller) = Rat(0, 1)

\* during a cross-fade every channel of the output is previous + (active -
\* previous) * progress, which is the previous sample at progress 0; the
\* lerp at progress 1 is the active sample; with no transition in flight
\* the output is the active sample
C23_Blend ==
    AnimComponentLayer_activeState(controller) # NoState =>
        IF AnimComponentLayer_transitioning(controller)
        THEN LET previous == Controller_previousResults(controller)
                 active   == Controller_activeResults(controller)
                 progress == AnimComponentLayer_transitionProgress(controller)
                 output   == Controller_output(controller)
             IN  /\ Len(output) = Len(active)
                 /\ \A k \in 1 .. Len(output) : \A j \in 1 .. Len(output[k]) :
                        \* output * den = previous * den + (active - previous) * num
                        output[k][j][1] * previous[k][j][2] * active[k][j][2] * progress[2]
                          = output[k][j][2] *
                              ( previous[k][j][1] * active[k][j][2] * progress[2]
                              + ( active[k][j][1] * previous[k][j][2]
                                - previous[k][j][1] * active[k][j][2] ) * progress[1] )
                 /\ progress = Rat(0, 1) => output = previous
                 /\ LerpResults(previous, active, Rat(1, 1)) = active
        ELSE Controller_output(controller) = Controller_activeResults(controller)

\* C23: during a cross-fade the blended output of every matching channel is
\* lerp(previous.results, active.results, progress): at progress 0 it is
\* the previous state's pure sample, at progress 1 the active state's pure
\* sample, and with no transition in flight only the active state
\* contributes.
C23_PoseBlend == []C23_Blend

\* half-way through a fade from a sample of 5 to a sample of 10
C23_Witness ==
    /\ AnimComponentLayer_transitioning(controller)
    /\ AnimComponentLayer_transitionProgress(controller) = Rat(1, 2)
    /\ Controller_previousResults(controller) = <<(<<Rat(5, 1)>>)>>
    /\ Controller_activeResults(controller) = <<(<<Rat(10, 1)>>)>>
    /\ Controller_output(controller) = <<(<<Rat(15, 2)>>)>>

\* the cache of input i of snapshot s, and the key times it was updated with
CacheOf(s, i) == cacheHeap[snapshots[s]._cache[i]]
KeysOf(i) == track._inputs[i]._data

\* the bracket of a cache is the one a cold seek to its last query time
\* finds, it holds that time, and it is clamped at both ends
C24_Bracket(cache, keys) ==
    LET t == cache.lastQueryTime
        i == cache.bracketIndex
        n == Len(keys)
    IN  /\ i = AnimCache_update(NewAnimCache, t, keys).bracketIndex
        /\ i \in 0 .. n - 2
        /\ t <= keys[1] => i = 0
        /\ (t >= keys[n] /\ t > keys[1]) => i = n - 2
        /\ (keys[1] < t /\ t < keys[n]) => (keys[i + 1] <= t /\ t < keys[i + 2])

SampledValue == bufHeap[snapshots[lastOp.snap]._results[1]][1]

\* the left and the right sample of the bracket the cache holds
LeftSample == Sample(track._outputs[1]._data, CacheOf(lastOp.snap, 1).bracketIndex)
RightSample == Sample(track._outputs[1]._data, CacheOf(lastOp.snap, 1).bracketIndex + 1)

\* an evaluation does not fault and writes a number; the Linear example
\* gives the time clamped to the keys (0 at -1 and 0, 5 at 0.5, 10 at 1 and
\* 2); Step gives the left sample of the bracket (5 at 0.9); a bracket
\* whose key times are equal gives its left sample
C25_Sampled ==
    lastOp.op = "eval" =>
        LET cache == CacheOf(lastOp.snap, 1)
            keys  == KeysOf(1)
            t     == lastOp.time
        IN  /\ lastOp.result = "ok"
            /\ SampledValue # NaN
            /\ track = TrackLinearExample =>
                   /\ SampledValue = Rat(Max(0, Min(10, t)), 1)
                   /\ t <= keys[1] => SampledValue = Sample(track._outputs[1]._data, 0)
                   /\ t >= keys[2] => SampledValue = Sample(track._outputs[1]._data, 1)
            /\ track._curves[1]._interpolation = "Step" => SampledValue = LeftSample
            /\ (track = TrackStepExample /\ t = 9) => SampledValue = Rat(5, 1)
            /\ keys[cache.bracketIndex + 1] = keys[cache.bracketIndex + 2] =>
                   SampledValue = LeftSample
            /\ (/\ track._curves[1]._interpolation = "Linear"
                /\ keys[cache.bracketIndex + 1] < keys[cache.bracketIndex + 2]) =>
                   LET t0  == keys[cache.bracketIndex + 1]
                       t1  == keys[cache.bracketIndex + 2]
                       num == Max(0, Min(t1 - t0, t - t0))
                   IN  SampledValue =
                           Rat(LeftSample[1] * (t1 - t0)
                               + (RightSample[1] - LeftSample[1]) * num, t1 - t0)

\* C25: sampling is clamped and never faults: Linear over the times 0, 1
\* with the values 0, 10 gives 0 at 0, 10 at 1, 0 at -1 and 10 at 2; Step
\* returns the left sample of the bracket unchanged (5 at 0.9 over the
\* times 0, 1, 2 with the values 5, 7, 9); a bracket with t1 = t0 uses
\* fraction 0 and divides by nothing.
C25_ClampedSampling == []C25_Sampled

\* the Step example sampled at 0.9 gave 5
C25_Witness ==
    /\ track = TrackStepExample
    /\ lastOp.op = "eval" /\ lastOp.time = 9 /\ lastOp.result = "ok"
    /\ SampledValue = Rat(5, 1)

\* C26: the layer's transitionProgress returns the controller's
\* transitionProgress exactly when the controller reports transitioning, and
\* null in every state where the layer is not transitioning (Idle, Playing,
\* and after a transition has completed).
C26_ProgressOrNull ==
    /\ controller.transitioning =>
           AnimComponentLayer_transitionProgress(controller) = controller.transitionProgress
    /\ ~controller.transitioning =>
           AnimComponentLayer_transitionProgress(controller) = Null
    /\ MachineState(controller) \in {"Idle", "Playing"} =>
           AnimComponentLayer_transitionProgress(controller) = Null

\* two thirds into a cross-fade the getter returns the progress
C26_Witness ==
    /\ controller.transitioning
    /\ controller.transitionProgress = Rat(2, 3)
    /\ AnimComponentLayer_transitionProgress(controller) = Rat(2, 3)

\* the node path the controller was handed by the last assignAnimation
AssignedNodePath(c) == c.calls[1][2]

\* a successful assignAnimation appends the transition from START to its
\* node path when the list is empty, and leaves the list alone otherwise
C27_AssignStep ==
    (lastOp'.op = "assignAnimation" /\ lastOp'.result = "ok") =>
        controller'._transitions =
            (IF Len(controller._transitions) = 0
             THEN <<AnimTransition("START", AssignedNodePath(controller'))>>
             ELSE controller._transitions)

\* a default transition is the only transition of the list
C27_OneDefault ==
    \A i \in 1 .. Len(controller._transitions) :
        controller._transitions[i].from = "START" => Len(controller._transitions) = 1

\* C27: a successful assignAnimation appends a default transition from
\* 'START' to the assigned nodePath if and only if the controller's
\* transition list is empty at that moment; on a layer that started with no
\* transitions the list therefore holds exactly one default transition, to
\* the node path assigned first, and later assignments add none.
C27_DefaultTransition == []C27_OneDefault /\ [][C27_AssignStep]_vars

\* walk was assigned after idle and the list holds only START -> idle
C27_Witness ==
    /\ lastOp.op = "assignAnimation" /\ lastOp.result = "ok"
    /\ AssignedNodePath(controller) = "walk"
    /\ controller.states["idle"].assigned
    /\ controller._transitions = <<AnimTransition("START", "idle")>>

\* the rebind of an assignMask sees the mask assigned before, and when it
\* throws that mask stays although the controller holds the new one
C28_RebindStep ==
    lastOp'.op = "assignMask" =>
        /\ component'.rebindCalls = 1 =>
               component'.rebindSaw = AnimComponentLayer_mask(layer)
        /\ lastOp'.result = "rebindThrew" =>
               /\ component'.rebindCalls = 1
               /\ AnimComponentLayer_mask(layer') = AnimComponentLayer_mask(layer)
               /\ controller'.mask = lastOp'.arg

\* C28: in assignMask the component's rebind is invoked before the layer's
\* stored mask is replaced: while the rebind triggered by assignMask(M)
\* runs, the mask getter still returns the mask assigned before, and if the
\* rebind fails the layer's mask stays at that value although the
\* controller has already accepted M.
C28_RebindBeforeStore == [][C28_RebindStep]_vars

\* the rebind of assignMask(maskSpine) threw on a layer masked by maskHip
C28_Witness ==
    /\ lastOp.op = "assignMask" /\ lastOp.arg = "maskSpine"
    /\ lastOp.result = "rebindThrew"
    /\ component.rebindSaw = "maskHip"
    /\ AnimComponentLayer_mask(layer) = "maskHip"
    /\ controller.mask = "maskSpine"

\* the curves of a track an eval on the snapshot cannot evaluate
FailingCurves(tr, snap) ==
    {k \in 1 .. Len(tr._curves) :
        \/ ~InRange(snap._cache, tr._curves[k]._input)
        \/ ~InRange(tr._outputs, tr._curves[k]._output)
        \/ ~InRange(snap._results, k - 1)}

\* an eval that failed at curve k has recorded the time, repositioned every
\* cache, written the results of the curves before k for the new time and
\* left the results of curve k and the later ones as they were
C29_FailedEvalStep ==
    (lastOp'.op = "eval" /\ lastOp'.result # "ok") =>
        LET s    == lastOp'.snap
            time == lastOp'.time
            snap == snapshots[s]
            bad  == FailingCurves(track, snap)
            k    == CHOOSE c \in bad : \A d \in bad : c <= d
        IN  /\ bad # {}
            /\ snapshots'[s]._time = time
            /\ \A i \in 1 .. Len(snap._cache) :
                   cacheHeap'[snap._cache[i]] =
                       AnimCache_update(cacheHeap[snap._cache[i]], time,
                                        track._inputs[i]._data)
            /\ \A j \in 1 .. Len(track._curves) :
                   IF j < k
                   THEN bufHeap'[snap._results[j]] =
                            AnimCache_eval(
                                AnimCache_update(NewAnimCache, time,
                                    track._inputs[track._curves[j]._input + 1]._data),
                                bufHeap[snap._results[j]],
                                track._curves[j]._interpolation,
                                track._outputs[track._curves[j]._output + 1])
                   ELSE bufHeap'[snap._results[j]] = bufHeap[snap._results[j]]

\* C29: AnimTrack.eval has no rollback: it records the new time in the
\* snapshot before any cache is updated or curve evaluated, so when the
\* evaluation fails at curve k the snapshot is left with the new time, all
\* caches repositioned, the results of the curves before k overwritten for
\* the new time and the results of curve k and the later ones holding what
\* they held before.
C29_NoRollback == [][C29_FailedEvalStep]_vars

\* an eval at time 1 failed at the second curve: the time is 1, the first
\* curve holds its value at 1 and the third still its initial 0
C29_Witness ==
    /\ track = TrackBadInput
    /\ lastOp.op = "eval" /\ lastOp.result = "TypeError" /\ lastOp.time = 1
    /\ snapshots[lastOp.snap]._time = 1
    /\ CacheOf(lastOp.snap, 1).lastQueryTime = 1
    /\ SnapshotView(lastOp.snap).buffers[1] = <<Rat(5, 1)>>
    /\ SnapshotView(lastOp.snap).buffers[3] = <<Rat(0, 1)>>

(***************************************************************************)
(* Render: mesh reference counts                                           *)
(***************************************************************************)
\* the non-null entries of an array of meshes, in order
NonNull(list) == SelectSeq(list, LAMBDA mesh : mesh # 0)

\* the array a render holds, empty when it holds null
CurrentList(ls, rs, r) == IF rs[r] = 0 THEN <<>> ELSE ls[rs[r]]

\* how many entries of the render's current array are the mesh
Held(ls, rs, r, m) ==
    Cardinality({i \in DOMAIN CurrentList(ls, rs, r) : CurrentList(ls, rs, r)[i] = m})

RECURSIVE HeldByAll(_, _, _, _)
HeldByAll(ls, rs, n, m) ==
    IF n = 0 THEN 0 ELSE Held(ls, rs, n, m) + HeldByAll(ls, rs, n - 1, m)

\* the meshes on which an operation made the call, in the order of the calls
MeshesCalled(events, call) ==
    LET calls == SelectSeq(events, LAMBDA e : e.call = call)
    IN  [i \in DOMAIN calls |-> calls[i].mesh]

\* every mesh carries one reference for each non-null entry of each render's
\* current array, next to the references of its other owners
C30_OneReferencePerEntry ==
    \A m \in MeshIds :
        meshes[m].refCount = meshes[m].others + HeldByAll(lists, renders, MaxRenders, m)

\* an assignment (destroy() assigns null) decrements each non-null entry of
\* the old array, then increments each non-null entry of the new one
C30_DecrementThenIncrementStep ==
    renderCall'.op \in {"setMeshes", "destroy"} =>
        LET r  == renderCall'.render
            ev == renderCall'.events
        IN  /\ renders'[r] = renderCall'.value
            /\ \A q \in DOMAIN renders : q # r => renders'[q] = renders[q]
            /\ MeshesCalled(ev, "decRefCount") = NonNull(CurrentList(lists, renders, r))
            /\ MeshesCalled(ev, "incRefCount") = NonNull(CurrentList(lists', renders', r))
            /\ \A i, j \in DOMAIN ev :
                   (ev[i].call = "incRefCount" /\ ev[j].call \in {"decRefCount", "destroy"})
                       => j < i

\* a mesh is destroyed only right after this render's decrement left its
\* count below 1, and no mesh is destroyed otherwise
C30_DestroyedBelowOneStep ==
    renderCall'.op \in {"setMeshes", "destroy"} =>
        LET ev == renderCall'.events
        IN  /\ \A i \in DOMAIN ev :
                   ev[i].call = "destroy" =>
                       /\ i > 1
                       /\ ev[i - 1].call = "decRefCount"
                       /\ ev[i - 1].mesh = ev[i].mesh
                       /\ ev[i - 1].count < 1
            /\ \A m \in MeshIds :
                   (meshes'[m].destroyed /\ ~meshes[m].destroyed)
                       => \E i \in DOMAIN ev : ev[i].call = "destroy" /\ ev[i].mesh = m

\* a mesh two renders hold survives the destruction or reassignment of one
\* of them, and the other render still holds it
C30_SharedSurvivesStep ==
    renderCall'.op \in {"setMeshes", "destroy"} =>
        LET r == renderCall'.render
        IN  \A q \in DOMAIN renders, m \in MeshIds :
                (q # r /\ Held(lists, renders, r, m) > 0 /\ Held(lists, renders, q, m) > 0)
                    => /\ meshes'[m].destroyed = meshes[m].destroyed
                       /\ Held(lists', renders', q, m) = Held(lists, renders, q, m)
                       /\ meshes'[m].refCount >= 1

\* C30: a Render keeps one reference on every non-null mesh of its current
\* list; assigning a list decrements the old list's meshes and then
\* increments the new list's; a mesh is destroyed only when its count is
\* below 1 after that Render's decrement; a mesh held by two Renders is not
\* destroyed when one of them is destroyed or reassigned.
C30_MeshReferences ==
    /\ []C30_OneReferencePerEntry
    /\ [][C30_DecrementThenIncrementStep]_vars
    /\ [][C30_DestroyedBelowOneStep]_vars
    /\ [][C30_SharedSurvivesStep]_vars

\* both renders held the array <<1, 2>> and the second was destroyed: the
\* meshes were decremented to 1 and none was destroyed
C30_Witness ==
    /\ renderCall.op = "destroy" /\ renderCall.render = 2
    /\ renders[1] = 2 /\ renders[2] = 0
    /\ lists[2] = <<1, 2>>
    /\ renderCall.events = <<MeshCall("decRefCount", 1, 1), MeshCall("decRefCount", 2, 1),
                             MeshCall("fire", 0, 0)>>
    /\ \A m \in MeshIds : meshes[m].refCount = 1 /\ ~meshes[m].destroyed

\* the assignment left every mesh of the assigned array in place, as alive as
\* it was, and referenced
C31_AssignedSurviveStep ==
    (renderCall'.op = "setMeshes" /\ renderCall'.value # 0) =>
        LET L == renderCall'.value
        IN  \A i \in DOMAIN lists[L] :
                lists[L][i] # 0 =>
                    /\ lists'[L][i] = lists[L][i]
                    /\ meshes'[lists[L][i]].destroyed = meshes[lists[L][i]].destroyed
                    /\ meshes'[lists[L][i]].refCount >= 1

\* C31: assigning a meshes list L to a Render never destroys a mesh of L:
\* after the assignment every mesh of L is alive, still present in L and
\* referenced by the render, also when L is the render's current list or
\* shares meshes with it and this render holds the only reference.
C31_AssignedMeshesSurvive == [][C31_AssignedSurviveStep]_vars

(***************************************************************************)
(* VrManager: the primary display and the list of displays                 *)
(***************************************************************************)
\* the display id an event carries
EventDisplayId(e) == IF e.detail # 0 THEN e.detail ELSE e.display

\* the display of the list that was constructed first
Oldest(displays) ==
    CHOOSE d \in Range(displays) : \A other \in Range(displays) : d.serial <= other.serial

\* the events of the name in a log, in order
FiredOf(log, name) == SelectSeq(log, LAMBDA entry : entry.name = name)

C32_PrimaryIsFirst ==
    /\ vr.display = NoDisplay <=> vr.displays = <<>>
    /\ vr.displays # <<>> => vr.display = vr.displays[1]

\* the disconnect of the primary display promotes the oldest remaining one
C32_PromotionStep ==
    (/\ vrCall'.op = "vrdisplaydisconnect"
     /\ vr.display # NoDisplay
     /\ EventDisplayId(vrCall'.e) = vr.display.id
     /\ Len(vr.displays) > 1)
        => /\ vr'.display # vr.display
           /\ vr'.display = Oldest(vr'.displays)
           /\ vr'.display \in Range(vr.displays)

\* C32: after any sequence of display connect and disconnect events,
\* VrManager.display is null if and only if VrManager.displays is empty, and
\* otherwise it is the first element of displays; a disconnect of the
\* primary display promotes the oldest remaining display.
C32_PrimaryDisplay ==
    /\ []C32_PrimaryIsFirst
    /\ [][C32_PromotionStep]_vars

\* three displays were connected and the first was disconnected: the second
\* is the primary one and the third is still listed
C32_Witness ==
    /\ vrCall.op = "vrdisplaydisconnect"
    /\ FiredOf(vr.log, "displaydisconnect") # <<>>
    /\ FiredOf(vr.log, "displaydisconnect")[1].display.serial = 1
    /\ Len(vr.displays) = 2
    /\ vr.display.serial = 2
    /\ vr.displays[2].serial = 3

\* displays lists every display of the index once, and no other
C33_ListMatchesIndex ==
    /\ \A i, j \in DOMAIN vr.displays :
           vr.displays[i].id = vr.displays[j].id => i = j
    /\ \A d \in Range(vr.displays) : vr._index[d.id] = d
    /\ \A id \in DisplayIds :
           vr._index[id] # NoDisplay => vr._index[id] \in Range(vr.displays)

\* a connect event adds a display unknown so far and fires displayconnect
\* once for it; for a known display it changes and fires nothing
C33_ConnectStep ==
    vrCall'.op = "vrdisplayconnect" =>
        LET id == EventDisplayId(vrCall'.e)
        IN  IF vr._index[id] # NoDisplay
            THEN /\ vr'.log = <<>>
                 /\ vr'._index = vr._index
                 /\ vr'.displays = vr.displays
                 /\ vr'.display = vr.display
            ELSE /\ Len(vr'.displays) = Len(vr.displays) + 1
                 /\ SubSeq(vr'.displays, 1, Len(vr.displays)) = vr.displays
                 /\ vr'.displays[Len(vr'.displays)].id = id
                 /\ vr'.log = <<VrLog("displayconnect", vr'._index[id])>>

\* a disconnect event removes a known display and fires displaydisconnect
\* once for it; for an unknown display it changes and fires nothing
C33_DisconnectStep ==
    vrCall'.op = "vrdisplaydisconnect" =>
        LET id == EventDisplayId(vrCall'.e)
        IN  IF vr._index[id] = NoDisplay
            THEN /\ vr'.log = <<>>
                 /\ vr'._index = vr._index
                 /\ vr'.displays = vr.displays
                 /\ vr'.display = vr.display
            ELSE /\ vr'._index[id] = NoDisplay
                 /\ vr'.displays = SelectSeq(vr.displays, LAMBDA d : d.id # id)
                 /\ FiredOf(vr'.log, "displaydisconnect")
                        = <<VrLog("displaydisconnect", vr._index[id])>>
                 /\ FiredOf(vr'.log, "displayconnect") = <<>>

\* the enumeration adds the displays unknown so far, fires displayconnect
\* once for each of them and then ready
C33_EnumerationStep ==
    vrCall'.op = "getDisplays" =>
        LET unknown == SelectSeq(vrCall'.enumerated, LAMBDA id : vr._index[id] = NoDisplay)
            fired   == FiredOf(vr'.log, "displayconnect")
        IN  /\ [i \in DOMAIN fired |-> fired[i].display.id] = unknown
            /\ \A i \in DOMAIN fired : fired[i].display = vr'._index[unknown[i]]
            /\ Len(vr'.displays) = Len(vr.displays) + Len(unknown)
            /\ SubSeq(vr'.displays, 1, Len(vr.displays)) = vr.displays
            /\ vr'.log[Len(vr'.log)] = VrLog("ready", NoDisplay)
            /\ FiredOf(vr'.log, "displaydisconnect") = <<>>

\* C33: in every interleaving of the initial asynchronous enumeration with
\* vrdisplayconnect / vrdisplaydisconnect events, VrManager.displays holds
\* each display id at most once and exactly the displays of its index;
\* connecting a known id adds nothing and fires no displayconnect,
\* disconnecting an unknown id changes nothing and fires no
\* displaydisconnect, and each effective connect or disconnect fires its
\* event exactly once.
C33_DisplaysConsistent ==
    /\ []C33_ListMatchesIndex
    /\ [][C33_ConnectStep]_vars
    /\ [][C33_DisconnectStep]_vars
    /\ [][C33_EnumerationStep]_vars

\* display 2 was connected by an event before the enumeration resolved with
\* the displays 2 and 1: only display 1 was added and announced
C33_Witness ==
    /\ vrCall.op = "getDisplays"
    /\ vrCall.enumerated = <<2, 1>>
    /\ vr.displays = <<VrDisplay(2, 1), VrDisplay(1, 2)>>
    /\ vr.log = <<VrLog("displayconnect", VrDisplay(1, 2)), VrLog("ready", NoDisplay)>>

(***************************************************************************)
(* LayoutChildComponent: the resize properties                             *)
(***************************************************************************)
\* an assignment fires 'resize' once when the value is not strictly equal to
\* the stored one and not at all when it is; afterwards the getter returns
\* the value assigned (the stored value strictly equal to it, when nothing
\* was stored); the other six properties keep their values
C34_AssignStep ==
    layoutCall'.op = "set" =>
        LET name   == layoutCall'.name
            value  == layoutCall'.value
            stored == LayoutChildComponent_get(layoutChild, name)
            got    == LayoutChildComponent_get(layoutChild', name)
        IN  /\ layoutCall'.fired = IF StrictEquals(stored, value) THEN <<>> ELSE <<"resize">>
            /\ got = value \/ StrictEquals(got, value)
            /\ \A other \in ResizeProperties \ {name} :
                   LayoutChildComponent_get(layoutChild', other)
                       = LayoutChildComponent_get(layoutChild, other)

\* C34: for each of the seven LayoutChildComponent resize properties,
\* assigning a value fires 'resize' exactly once if the value differs from
\* the stored one and not at all if it is identical, the getter afterwards
\* returns the assigned value, and the other six properties are unchanged.
C34_ResizeProperties == [][C34_AssignStep]_vars

\* minWidth was set to 1, then maxWidth: 'resize' fired once, maxWidth reads
\* 1 and minWidth still reads 1
C34_Witness ==
    /\ layoutCall.op = "set" /\ layoutCall.count = 2
    /\ layoutCall.name = "maxWidth" /\ layoutCall.value = JsNumber(1)
    /\ layoutCall.fired = <<"resize">>
    /\ LayoutChildComponent_get(layoutChild, "maxWidth") = JsNumber(1)
    /\ LayoutChildComponent_get(layoutChild, "minWidth") = JsNumber(1)
    /\ LayoutChildComponent_get(layoutChild, "maxHeight") = JsNull
====
